---- MODULE Spec2Model ----
(***************************************************************************)
(* Transcript resolution engine of youtube-transcription-api:              *)
(*   - the error classifier (classify_youtube_error, is_retryable_error),  *)
(*   - the backoff retrier (retry_with_backoff),                           *)
(*   - the four-tier ladder (get_transcript),                              *)
(*   - the endpoints POST /transcribe and POST /transcribe/stream with     *)
(*     their metadata/captions fan-out and the partial/full race.          *)
(***************************************************************************)
EXTENDS Integers, Sequences, FiniteSets, TLC

(***************************************************************************)
(* Text.  An error message is a sequence of characters; str.lower() and    *)
(* the `in` operator are modelled on characters, so that a keyword may     *)
(* match inside a longer word exactly as it does in Python.                *)
(***************************************************************************)
UpperToLower ==
  ("A" :> "a") @@ ("B" :> "b") @@ ("C" :> "c") @@ ("D" :> "d") @@ ("E" :> "e") @@ ("F" :> "f") @@ ("G" :> "g") @@
  ("H" :> "h") @@ ("I" :> "i") @@ ("J" :> "j") @@ ("K" :> "k") @@ ("L" :> "l") @@ ("M" :> "m") @@ ("N" :> "n") @@
  ("O" :> "o") @@ ("P" :> "p") @@ ("Q" :> "q") @@ ("R" :> "r") @@ ("S" :> "s") @@ ("T" :> "t") @@ ("U" :> "u") @@
  ("V" :> "v") @@ ("W" :> "w") @@ ("X" :> "x") @@ ("Y" :> "y") @@ ("Z" :> "z")
Lower(s) ==
  [i \in 1..Len(s) |-> IF s[i] \in DOMAIN UpperToLower THEN UpperToLower[s[i]] ELSE s[i]]

Contains(s, kw) ==
  \E i \in 1..(Len(s) - Len(kw) + 1) : SubSeq(s, i, i + Len(kw) - 1) = kw

ContainsAny(s, kws) ==
  \E kw \in kws : Contains(s, kw)

\* Error messages an operation wrapped by the retrier may raise.
MessageText ==
  [ \* HTTP 429 Too Many Requests
    http429 |->
      <<"H","T","T","P"," ","4","2","9"," ","T","o","o"," ","M","a","n","y"," ","R","e","q","u","e","s","t","s">>,
    \* Video not found
    notfound |->
      <<"V","i","d","e","o"," ","n","o","t"," ","f","o","u","n","d">>,
    \* Video unavailable: connection timeout
    unavail_conn |->
      <<"V","i","d","e","o"," ","u","n","a","v","a","i","l","a","b","l","e",":"," ","c","o","n","n","e","c","t","i","o","n"," ","t","i","m","e","o","u","t">>,
    \* Private video (network error)
    private_net |->
      <<"P","r","i","v","a","t","e"," ","v","i","d","e","o"," ","(","n","e","t","w","o","r","k"," ","e","r","r","o","r",")">>,
    \* too many redirects
    redirects |->
      <<"t","o","o"," ","m","a","n","y"," ","r","e","d","i","r","e","c","t","s">>,
    \* Sign in to confirm you are not a bot
    signin |->
      <<"S","i","g","n"," ","i","n"," ","t","o"," ","c","o","n","f","i","r","m"," ","y","o","u"," ","a","r","e"," ","n","o","t"," ","a"," ","b","o","t">>,
    \* Connection reset
    conn_reset |->
      <<"C","o","n","n","e","c","t","i","o","n"," ","r","e","s","e","t">>,
    \* boom
    boom |->
      <<"b","o","o","m">>,
    \* Please sign in to view this video
    please_signin |->
      <<"P","l","e","a","s","e"," ","s","i","g","n"," ","i","n"," ","t","o"," ","v","i","e","w"," ","t","h","i","s"," ","v","i","d","e","o">>,
    \* Unable to connect to proxy
    proxy |->
      <<"U","n","a","b","l","e"," ","t","o"," ","c","o","n","n","e","c","t"," ","t","o"," ","p","r","o","x","y">>,
    \* Failed to extract any player response
    player_response |->
      <<"F","a","i","l","e","d"," ","t","o"," ","e","x","t","r","a","c","t"," ","a","n","y"," ","p","l","a","y","e","r"," ","r","e","s","p","o","n","s","e">> ]

MessageIds ==
  DOMAIN MessageText

\* What _fetch_youtube_captions raises: the stage, the class and the text of the
\* youtube-transcript-api error behind the prefix of its own message.
CaptionErrorText ==
  [ \* All Tier 1 attempts failed: direct: IpBlocked: YouTube is blocking requests from your IP
    captions_blocked |->
      <<"A","l","l"," ","T","i","e","r"," ","1"," ","a","t","t","e","m","p","t","s"," ","f","a","i","l","e","d",":"," ","d","i","r","e","c","t",":"," ","I","p","B","l","o","c","k","e","d",":"," ","Y","o","u","T","u","b","e"," ","i","s"," ","b","l","o","c","k","i","n","g"," ","r","e","q","u","e","s","t","s"," ","f","r","o","m"," ","y","o","u","r"," ","I","P">>,
    \* All Tier 1 attempts failed: direct: TranscriptsDisabled: Subtitles are disabled for this video
    captions_disabled |->
      <<"A","l","l"," ","T","i","e","r"," ","1"," ","a","t","t","e","m","p","t","s"," ","f","a","i","l","e","d",":"," ","d","i","r","e","c","t",":"," ","T","r","a","n","s","c","r","i","p","t","s","D","i","s","a","b","l","e","d",":"," ","S","u","b","t","i","t","l","e","s"," ","a","r","e"," ","d","i","s","a","b","l","e","d"," ","f","o","r"," ","t","h","i","s"," ","v","i","d","e","o">>,
    \* All Tier 1 attempts failed: direct: VideoUnavailable: The video is no longer available
    captions_unavailable |->
      <<"A","l","l"," ","T","i","e","r"," ","1"," ","a","t","t","e","m","p","t","s"," ","f","a","i","l","e","d",":"," ","d","i","r","e","c","t",":"," ","V","i","d","e","o","U","n","a","v","a","i","l","a","b","l","e",":"," ","T","h","e"," ","v","i","d","e","o"," ","i","s"," ","n","o"," ","l","o","n","g","e","r"," ","a","v","a","i","l","a","b","l","e">> ]

\* str(tierN_error), by the id the engine carries: what _fetch_youtube_captions
\* raises, and str(e) of what the download, transcription and direct-URL
\* strategies raise.
TierErrorText ==
  CaptionErrorText @@
  [ \* Video not found: abc12345678
    ytdlp_not_found |->
      <<"V","i","d","e","o"," ","n","o","t"," ","f","o","u","n","d",":"," ","a","b","c","1","2","3","4","5","6","7","8">>,
    \* Video is private or unavailable: abc12345678
    ytdlp_private |->
      <<"V","i","d","e","o"," ","i","s"," ","p","r","i","v","a","t","e"," ","o","r"," ","u","n","a","v","a","i","l","a","b","l","e",":"," ","a","b","c","1","2","3","4","5","6","7","8">>,
    \* YouTube bot detection triggered for video abc12345678. POT tokens may help - ensure bgutil-ytdlp-pot-provider is running.
    ytdlp_bot |->
      <<"Y","o","u","T","u","b","e"," ","b","o","t"," ","d","e","t","e","c","t","i","o","n"," ","t","r","i","g","g","e","r","e","d"," ","f","o","r"," ","v","i","d","e","o"," ","a","b","c","1","2","3","4","5","6","7","8","."," ","P","O","T"," ","t","o","k","e","n","s"," ","m","a","y"," ","h","e","l","p"," ","-"," ","e","n","s","u","r","e"," ","b","g","u","t","i","l","-","y","t","d","l","p","-","p","o","t","-","p","r","o","v","i","d","e","r"," ","i","s"," ","r","u","n","n","i","n","g",".">>,
    \* Failed to download: ERROR: Requested format is not available
    ytdlp_failed |->
      <<"F","a","i","l","e","d"," ","t","o"," ","d","o","w","n","l","o","a","d",":"," ","E","R","R","O","R",":"," ","R","e","q","u","e","s","t","e","d"," ","f","o","r","m","a","t"," ","i","s"," ","n","o","t"," ","a","v","a","i","l","a","b","l","e">>,
    \* Video not found via pytubefix (tried all clients): abc12345678
    pytubefix_not_found |->
      <<"V","i","d","e","o"," ","n","o","t"," ","f","o","u","n","d"," ","v","i","a"," ","p","y","t","u","b","e","f","i","x"," ","(","t","r","i","e","d"," ","a","l","l"," ","c","l","i","e","n","t","s",")",":"," ","a","b","c","1","2","3","4","5","6","7","8">>,
    \* Video is private: abc12345678
    pytubefix_private |->
      <<"V","i","d","e","o"," ","i","s"," ","p","r","i","v","a","t","e",":"," ","a","b","c","1","2","3","4","5","6","7","8">>,
    \* All pytubefix clients blocked by bot detection: detected as a bot
    pytubefix_bot |->
      <<"A","l","l"," ","p","y","t","u","b","e","f","i","x"," ","c","l","i","e","n","t","s"," ","b","l","o","c","k","e","d"," ","b","y"," ","b","o","t"," ","d","e","t","e","c","t","i","o","n",":"," ","d","e","t","e","c","t","e","d"," ","a","s"," ","a"," ","b","o","t">>,
    \* All pytubefix clients failed for abc12345678: HTTP Error 400
    pytubefix_failed |->
      <<"A","l","l"," ","p","y","t","u","b","e","f","i","x"," ","c","l","i","e","n","t","s"," ","f","a","i","l","e","d"," ","f","o","r"," ","a","b","c","1","2","3","4","5","6","7","8",":"," ","H","T","T","P"," ","E","r","r","o","r"," ","4","0","0">>,
    \* Transcription failed: File does not appear to contain audio
    transcription_failed |->
      <<"T","r","a","n","s","c","r","i","p","t","i","o","n"," ","f","a","i","l","e","d",":"," ","F","i","l","e"," ","d","o","e","s"," ","n","o","t"," ","a","p","p","e","a","r"," ","t","o"," ","c","o","n","t","a","i","n"," ","a","u","d","i","o">>,
    \* AssemblyAI direct transcription failed: Download error
    direct_failed |->
      <<"A","s","s","e","m","b","l","y","A","I"," ","d","i","r","e","c","t"," ","t","r","a","n","s","c","r","i","p","t","i","o","n"," ","f","a","i","l","e","d",":"," ","D","o","w","n","l","o","a","d"," ","e","r","r","o","r">> ]

(***************************************************************************)
(* classify_youtube_error: the keyword table, rows taken in order.         *)
(***************************************************************************)
BlockedKeywords ==
  { <<"s","i","g","n"," ","i","n"," ","t","o"," ","c","o","n","f","i","r","m">>,
    <<"b","o","t">> }

RateLimitKeywords ==
  { <<"4","2","9">>,
    <<"r","a","t","e"," ","l","i","m","i","t">>,
    <<"t","o","o"," ","m","a","n","y">> }

UnavailableKeywords ==
  { <<"p","r","i","v","a","t","e">> }

CookiesKeywords ==
  { <<"a","g","e">>,
    <<"l","o","g","i","n">>,
    <<"c","o","o","k","i","e","s">> }

NotFoundKeywords ==
  { <<"n","o","t"," ","f","o","u","n","d">>,
    <<"4","0","4">>,
    <<"u","n","a","v","a","i","l","a","b","l","e">> }

classify_youtube_error(error_msg) ==
  LET error_lower == Lower(error_msg) IN
  IF ContainsAny(error_lower, BlockedKeywords) THEN "YouTubeBlockedError"
  ELSE IF ContainsAny(error_lower, RateLimitKeywords) THEN "YouTubeRateLimitError"
  ELSE IF ContainsAny(error_lower, UnavailableKeywords) THEN "VideoUnavailableError"
  ELSE IF ContainsAny(error_lower, CookiesKeywords) THEN "YouTubeCookiesRequiredError"
  ELSE IF ContainsAny(error_lower, NotFoundKeywords) THEN "VideoNotFoundError"
  ELSE "DownloadError"

(***************************************************************************)
(* is_retryable_error                                                      *)
(***************************************************************************)
RetryableKeywords ==
  { <<"4","2","9">>,
    <<"r","a","t","e"," ","l","i","m","i","t">>,
    <<"t","o","o"," ","m","a","n","y"," ","r","e","q","u","e","s","t","s">>,
    <<"t","e","m","p","o","r","a","r","y">>,
    <<"t","i","m","e","o","u","t">>,
    <<"c","o","n","n","e","c","t","i","o","n">>,
    <<"n","e","t","w","o","r","k">>,
    <<"s","e","r","v","e","r"," ","e","r","r","o","r">>,
    <<"5","0","2">>,
    <<"5","0","3">>,
    <<"5","0","4">> }

is_retryable_error(error_msg) ==
  ContainsAny(Lower(error_msg), RetryableKeywords)

(***************************************************************************)
(* _is_proxy_error, _is_innertube_context_error                            *)
(***************************************************************************)
ProxyKeywords ==
  { <<"p","r","o","x","y">>,
    <<"t","u","n","n","e","l"," ","c","o","n","n","e","c","t","i","o","n"," ","f","a","i","l","e","d">>,
    <<"p","r","o","x","y"," ","a","u","t","h","e","n","t","i","c","a","t","i","o","n"," ","r","e","q","u","i","r","e","d">> }

\* " 407 " in f" {error_lower} "
PaddedKeyword407 ==
  <<" ","4","0","7"," ">>

Padded(s) ==
  <<" ">> \o s \o <<" ">>

is_proxy_error(error_msg) ==
  \/ ContainsAny(Lower(error_msg), ProxyKeywords)
  \/ Contains(Padded(Lower(error_msg)), PaddedKeyword407)

InnertubeKeywords ==
  { <<"i","n","n","e","r","t","u","b","e","_","c","o","n","t","e","x","t">>,
    <<"e","x","t","r","a","c","t","o","r"," ","e","r","r","o","r">>,
    <<"f","a","i","l","e","d"," ","t","o"," ","e","x","t","r","a","c","t">>,
    <<"i","n","i","t","i","a","l"," ","p","l","a","y","e","r"," ","r","e","s","p","o","n","s","e">>,
    <<"p","l","a","y","e","r"," ","r","e","s","p","o","n","s","e">> }

is_innertube_context_error(error_msg) ==
  ContainsAny(Lower(error_msg), InnertubeKeywords)

(***************************************************************************)
(* State.                                                                  *)
(***************************************************************************)
VARIABLES
  \* retry_with_backoff.wrapper: one call of a decorated operation
  rCfg,       \* the decorator's parameters
  rPc,        \* "running" | "returned" | "raised"
  rAttempt,   \* loop variable attempt
  rDelay,     \* local delay
  rCalls,     \* number of invocations of func so far
  rSleeps,    \* the time.sleep calls so far: [base, tenths]
  rLast,      \* last_exception: id of the message of the last failure, or "none"
  rRaisedBy,  \* the invocation (1-based) whose exception left the wrapper, or 0
  rRaised,    \* id of the message of the exception that left the wrapper, or "none"
  ctx,        \* a RetryContext and the documented loop driving it
  \* the resolution engine: one request at a time
  phase,      \* "first" | "second": the second request replays the first one's video
  first,      \* what the first request ended in
  world,      \* the answers the external collaborators give for this video
  entry,      \* "none" | "get_transcript" | "transcribe" | "stream"
  req,        \* the request: [valid] extract_video_id finds an id, [prefer] prefer_diarization
  pc,         \* position of the endpoint handler
  metaRes,    \* oembed_result
  capRes,     \* captions_result
  tempDir,    \* "none" | "exists" | "removed"
  gtPc,       \* position inside get_transcript
  gtErrs,     \* tier1_error .. tier4_error
  gtOut,      \* what get_transcript returned or raised
  sl,         \* locals of the stream generator's slow path
  race,       \* the partial/full race of the stream generator
  events,     \* the server-sent events yielded so far
  resp,       \* the TranscribeResponse of POST /transcribe
  calls,      \* every external call the resolution has started, in order
  orphans,    \* operations left running in threads by a cancelled generator
  \* download_audio: one call
  dSettings,  \* which proxies the settings enable
  dPc,        \* "idle" | "first" | "no_proxy" | "webshare" | "returned" | "raised"
  dAttempts,  \* the proxy option of every _download_with_opts call so far
  dMsg,       \* error_msg: id of the message of the last yt-dlp DownloadError, or "none"
  dOut,       \* what download_audio returned or raised
  \* _fetch_youtube_captions: one call
  cSettings,  \* which proxy configurations the settings give
  cPc,        \* "idle" | the stage about to run | "returned" | "raised"
  cAttempts,  \* the egress option of every fetch so far
  cErrors,    \* errors: [option, error] per failed fetch
  cOut        \* what _fetch_youtube_captions returned or raised

retryVars ==
  <<rCfg, rPc, rAttempt, rDelay, rCalls, rSleeps, rLast, rRaisedBy, rRaised, ctx>>

engineVars ==
  <<phase, first, world, entry, req, pc, metaRes, capRes, tempDir,
    gtPc, gtErrs, gtOut, sl, race, events, resp, calls, orphans>>

downloadVars ==
  <<dSettings, dPc, dAttempts, dMsg, dOut>>

captionVars ==
  <<cSettings, cPc, cAttempts, cErrors, cOut>>

vars ==
  <<retryVars, engineVars, downloadVars, captionVars>>

(***************************************************************************)
(* retry_with_backoff                                                      *)
(***************************************************************************)
\* Largest max_retries the model draws.
MaxRetriesBound ==
  3

\* (initial_delay, max_delay, backoff_factor) in seconds; the first row is the default.
DelayParams ==
  { <<2, 30, 2>>, <<2, 5, 2>>, <<1, 5, 3>> }

\* 0.5 + random.random() lies in [0.5, 1.5); in tenths.
JitterTenths ==
  { 5, 10, 14 }

RetryConfigs ==
  [ max_retries : 0..MaxRetriesBound, params : DelayParams, jitter : BOOLEAN ]

Min(a, b) ==
  IF a <= b THEN a ELSE b

\* Mutant: the delay is not capped by max_delay.
CurrentDelay_NoCap(delay, max_delay) ==
  delay

\* current_delay = min(delay, max_delay), before jitter
CurrentDelay(delay, max_delay) ==
  Min(delay, max_delay)

\* An exception of the operation: the invocation (1-based) that raised it and
\* the id of its message.
Exc(by, msg) ==
  [by |-> by, msg |-> msg]

\* Mutant: the wrapper raises what last_exception held when the handler was entered.
Reraise_Previous(e, last_exception) ==
  last_exception

\* The bare `raise` of the except clause: e, the exception being handled.
Reraise(e, last_exception) ==
  e

\* Mutant: the exhausted-attempts test is dropped.
ShouldGiveUp_NoBudget(msg, attempt, max_retries) ==
  ~is_retryable_error(MessageText[msg])

\* The except clause re-raises: the error is not retryable, or attempt >= max_retries.
ShouldGiveUp(msg, attempt, max_retries) ==
  \/ ~is_retryable_error(MessageText[msg])
  \/ attempt >= max_retries

\* No RetryContext in use.
NoContext ==
  [pc |-> "idle", attempt |-> 0, delay |-> 0, last_error |-> "none", calls |-> 0,
   sleeps |-> <<>>]

\* RetryContext.__init__, at the top of the documented loop
NewContext(initial_delay) ==
  [pc |-> "running", attempt |-> 0, delay |-> initial_delay, last_error |-> "none",
   calls |-> 0, sleeps |-> <<>>]

\* Mutant: the last allowed attempt is refused.
should_retry_Strict(self, max_retries) ==
  self.attempt < max_retries

\* RetryContext.should_retry
should_retry(self, max_retries) ==
  self.attempt <= max_retries

\* RetryContext.record_failure: the context after it, j the jitter drawn
record_failure(self, cfg, error, j) ==
  LET attempt == self.attempt + 1
      current_delay == Min(self.delay, cfg.params[2])
  IN
    IF attempt <= cfg.max_retries
      THEN [self EXCEPT !.last_error = error,
                        !.attempt = attempt,
                        !.sleeps = Append(@, [base |-> current_delay,
                                              tenths |-> current_delay * j]),
                        !.delay = @ * cfg.params[3]]
      ELSE [self EXCEPT !.last_error = error, !.attempt = attempt]

\* RetryContext.get_last_error
get_last_error(self) ==
  self.last_error

\* while ctx.should_retry(): try: result = do_something(); break
LoopOperationReturns ==
  /\ ctx.pc = "running"
  /\ ctx' = [ctx EXCEPT !.calls = @ + 1, !.pc = "broke"]

\* ... except SomeError as e: ctx.record_failure(e), and the loop test
LoopOperationRaises(error, j) ==
  /\ ctx.pc = "running"
  /\ LET self == record_failure(ctx, rCfg, error, j) IN
       ctx' = [self EXCEPT !.calls = @ + 1,
                           !.pc = IF should_retry(self, rCfg.max_retries)
                                    THEN "running" ELSE "exhausted"]

RetryInit ==
  /\ rCfg \in RetryConfigs
  /\ rPc = "running"
  /\ rAttempt = 0
  /\ rDelay = rCfg.params[1]
  /\ rCalls = 0
  /\ rSleeps = <<>>
  /\ rLast = "none"
  /\ rRaisedBy = 0
  /\ rRaised = "none"
  /\ ctx = NoContext

RetryIdle ==
  /\ rCfg = [max_retries |-> 0, params |-> <<2, 30, 2>>, jitter |-> FALSE]
  /\ rPc = "idle"
  /\ rAttempt = 0
  /\ rDelay = 0
  /\ rCalls = 0
  /\ rSleeps = <<>>
  /\ rLast = "none"
  /\ rRaisedBy = 0
  /\ rRaised = "none"
  /\ ctx = NoContext

\* func(*args, **kwargs) returns
WrapperReturns ==
  /\ rPc = "running"
  /\ rAttempt <= rCfg.max_retries
  /\ rCalls' = rCalls + 1
  /\ rPc' = "returned"
  /\ UNCHANGED <<rCfg, rAttempt, rDelay, rSleeps, rLast, rRaisedBy, rRaised>>

\* func(*args, **kwargs) raises msg; the handler re-raises
WrapperGivesUp(msg) ==
  /\ rPc = "running"
  /\ rAttempt <= rCfg.max_retries
  /\ ShouldGiveUp(msg, rAttempt, rCfg.max_retries)
  /\ rLast' = msg
  /\ rCalls' = rCalls + 1
  /\ rRaisedBy' = Reraise(Exc(rCalls + 1, msg), Exc(rCalls, rLast)).by
  /\ rRaised' = Reraise(Exc(rCalls + 1, msg), Exc(rCalls, rLast)).msg
  /\ rPc' = "raised"
  /\ UNCHANGED <<rCfg, rAttempt, rDelay, rSleeps>>

\* func(*args, **kwargs) raises msg; the handler sleeps, with jitter j, and the
\* loop goes on
WrapperSleeps(msg, j) ==
  /\ rPc = "running"
  /\ rAttempt <= rCfg.max_retries
  /\ ~ShouldGiveUp(msg, rAttempt, rCfg.max_retries)
  /\ (~rCfg.jitter) => j = 10
  /\ rLast' = msg
  /\ rCalls' = rCalls + 1
  /\ rSleeps' = Append(rSleeps,
       [ base |-> CurrentDelay(rDelay, rCfg.params[2]),
         tenths |-> CurrentDelay(rDelay, rCfg.params[2]) * j ])
  /\ rDelay' = rDelay * rCfg.params[3]
  /\ rAttempt' = rAttempt + 1
  \* leaving the for loop raises last_exception
  /\ rPc' = IF rAttempt + 1 > rCfg.max_retries THEN "raised" ELSE "running"
  /\ rRaisedBy' = IF rAttempt + 1 > rCfg.max_retries THEN rCalls + 1 ELSE rRaisedBy
  \* raise last_exception
  /\ rRaised' = IF rAttempt + 1 > rCfg.max_retries THEN msg ELSE rRaised
  /\ UNCHANGED rCfg

\* One call of a decorated operation, no RetryContext around.
RetryCallReturns ==
  /\ UNCHANGED <<engineVars, downloadVars, captionVars, ctx>>
  /\ WrapperReturns

RetryCallRaisesGiveUp ==
  /\ UNCHANGED <<engineVars, downloadVars, captionVars, ctx>>
  /\ \E msg \in MessageIds : WrapperGivesUp(msg)

RetryCallRaisesSleep ==
  /\ UNCHANGED <<engineVars, downloadVars, captionVars, ctx>>
  /\ \E msg \in MessageIds, j \in JitterTenths : WrapperSleeps(msg, j)

\* The failures both retry loops treat alike: the retryable ones.
RetryableIds ==
  { m \in MessageIds : is_retryable_error(MessageText[m]) }

\* The same operation under the decorator and inside the documented
\* RetryContext loop: both see each outcome and each random draw.
BothOperationReturns ==
  /\ UNCHANGED <<engineVars, downloadVars, captionVars>>
  /\ WrapperReturns
  /\ LoopOperationReturns

BothOperationRaisesLast ==
  /\ UNCHANGED <<engineVars, downloadVars, captionVars>>
  /\ \E msg \in RetryableIds, j \in JitterTenths :
       /\ WrapperGivesUp(msg)
       /\ LoopOperationRaises(msg, j)

BothOperationRaises ==
  /\ UNCHANGED <<engineVars, downloadVars, captionVars>>
  /\ \E msg \in RetryableIds, j \in JitterTenths :
       /\ WrapperSleeps(msg, j)
       /\ LoopOperationRaises(msg, j)

(***************************************************************************)
(* Results and exceptions of the external collaborators.                   *)
(*   ok   : the call returned                                              *)
(*   cls  : class of the exception raised ("none": Python None,           *)
(*          "pending": the task has not finished)                          *)
(*   msg  : id of the exception's message                                  *)
(*   dur  : duration / audio_duration of a returned value, seconds         *)
(*   text : what a returned value holds                                    *)
(***************************************************************************)
Ok(text, dur) ==
  [ok |-> TRUE, cls |-> "", msg |-> "", dur |-> dur, text |-> text]

Err(cls, msg) ==
  [ok |-> FALSE, cls |-> cls, msg |-> msg, dur |-> 0, text |-> ""]

None_ ==
  Err("none", "")

Pending ==
  Err("pending", "")

Finished(r) ==
  r.cls \notin {"none", "pending"}

PARTIAL_THRESHOLD_SECS ==
  150

PARTIAL_DURATION_SECS ==
  60

\* The slack of the test audio_duration <= PARTIAL_DURATION_SECS + 10.
PartialSlackSecs ==
  10

\* info.get("duration", 0) of a download: unknown, at the threshold, above it.
DownloadDurations ==
  { 0, PARTIAL_THRESHOLD_SECS, PARTIAL_THRESHOLD_SECS + 1 }

\* Outcome of urlopen on the oEmbed URL.
HttpOutcomes ==
  { "200", "404", "401", "403", "500", "urlerror" }

get_metadata_via_oembed(http) ==
  CASE http = "200" -> Ok("oembed", 0)
    [] http = "404" -> Err("VideoNotFoundError", "oembed_not_found")
    [] http \in {"401", "403"} -> Err("VideoUnavailableError", "oembed_private")
    [] http = "500" -> Err("YouTubeError", "oembed_http_error")
    [] OTHER -> Err("YouTubeError", "oembed_failed")

\* _fetch_youtube_captions returns a TranscriptResult or raises a plain Exception.
CaptionAnswers ==
  { Ok("caption_text", 200),
    Err("Exception", "captions_blocked"),
    Err("Exception", "captions_disabled"),
    Err("Exception", "captions_unavailable") }

\* download_audio
YtdlpAnswers ==
  { Ok("audio", d) : d \in DownloadDurations } \cup
  { Err("VideoNotFoundError", "ytdlp_not_found"),
    Err("VideoUnavailableError", "ytdlp_private"),
    Err("YouTubeBlockedError", "ytdlp_bot"),
    Err("DownloadError", "ytdlp_failed") }

\* download_audio_pytubefix
PytubefixAnswers ==
  { Ok("audio", d) : d \in DownloadDurations } \cup
  { Err("VideoNotFoundError", "pytubefix_not_found"),
    Err("VideoUnavailableError", "pytubefix_private"),
    Err("YouTubeBlockedError", "pytubefix_bot"),
    Err("DownloadError", "pytubefix_failed") }

\* transcribe_audio on the whole audio of a download of duration d
TranscribeAnswers(d) ==
  { Ok("full_text", d), Err("TranscriptionError", "transcription_failed") }

\* transcribe_audio on the clip trim_audio cut from a download of duration d
ClipTranscribeAnswers(d) ==
  { Ok("clip_text", Min(d, PARTIAL_DURATION_SECS)),
    Err("TranscriptionError", "clip_transcription_failed") }

\* _fetch_with_assemblyai_direct
DirectAnswers ==
  { Ok("full_text", PARTIAL_THRESHOLD_SECS + 1),
    Err("TranscriptionError", "direct_failed") }

\* trim_audio
TrimAnswers ==
  { Ok("clip", PARTIAL_DURATION_SECS), Err("RuntimeError", "ffmpeg_failed") }

\* tempfile.mkdtemp
MkdtempAnswers ==
  { Ok("dir", 0), Err("OSError", "mkdtemp_failed") }

WorldKeys ==
  { "cap", "ytdlp", "pytubefix", "direct", "tr_ytdlp", "tr_pytubefix", "trim", "partial",
    "mkdtemp" }

\* The collaborators answer a repeated call for the same video as they did before.
Answers(key, fresh) ==
  IF world[key] = None_ THEN fresh ELSE { world[key] }

\* Mutant: only VideoNotFoundError counts.
IsTargetMissing_NotFoundOnly(r) ==
  r.cls = "VideoNotFoundError"

\* isinstance(e, (VideoNotFoundError, VideoUnavailableError))
IsTargetMissing(r) ==
  r.cls \in {"VideoNotFoundError", "VideoUnavailableError"}

(***************************************************************************)
(* Responses and events.                                                   *)
(***************************************************************************)
\* metadata = oembed_metadata or {"title": "Unknown", "thumbnail": maxresdefault, ...}
MetadataOrSynthesized(oembed_result) ==
  IF oembed_result.ok
    THEN [title |-> "oembed_title", thumbnail |-> "maxresdefault"]
    ELSE [title |-> "Unknown", thumbnail |-> "maxresdefault"]

NoMetadata ==
  [title |-> "", thumbnail |-> ""]

NoResponse ==
  [kind |-> "none", method |-> "", text |-> "", metadata |-> NoMetadata, errors |-> <<>>]

\* TranscribeResponse(success=True, data=...)
Success(method, text, metadata) ==
  [kind |-> "success", method |-> method, text |-> text, metadata |-> metadata,
   errors |-> <<>>]

\* Mutant: the exception leaves the handler instead of becoming a response.
Failure_Raises(errors) ==
  [kind |-> "exception", method |-> "", text |-> "", metadata |-> [title |-> "", thumbnail |-> ""],
   errors |-> errors]

\* TranscribeResponse(success=False, error=...): the messages the error string holds
Failure(errors) ==
  [kind |-> "failure", method |-> "", text |-> "", metadata |-> NoMetadata,
   errors |-> errors]

\* _format_sse(type, {...})
Event(type, phase_, method, text, metadata, errors) ==
  [type |-> type, phase |-> phase_, method |-> method, text |-> text,
   metadata |-> metadata, errors |-> errors]

ErrorEvent(phase_, errors) ==
  Event("error", phase_, "", "", NoMetadata, errors)

CompleteEvent(method, text, metadata) ==
  Event("complete", "", method, text, metadata, <<>>)

\* Mutant: the finally block leaves the directory in place.
Cleanup_Leaves(td) ==
  td

\* the finally block: shutil.rmtree(temp_dir) if one was made
Cleanup(td) ==
  IF td = "exists" THEN "removed" ELSE td

\* Mutant: the test of the extracted video id is dropped.
Validated_Always(request) ==
  TRUE

\* video_id = extract_video_id(...); `if not video_id` is the failure branch
Validated(request) ==
  request.valid

(***************************************************************************)
(* The fast path: what the handler does once gather has both results.      *)
(***************************************************************************)
\* Mutant: the captions result is looked at before the oEmbed failure.
FastPathDecision_CaptionsFirst(oembed_result, captions_result) ==
  IF captions_result.ok THEN "fast"
  ELSE IF IsTargetMissing(oembed_result) THEN "abort"
  ELSE "slow"

\* Mutant: every oEmbed failure ends the resolution.
FastPathDecision_AnyMetadataFailure(oembed_result, captions_result) ==
  IF ~oembed_result.ok THEN "abort"
  ELSE IF captions_result.ok THEN "fast"
  ELSE "slow"

\* Mutant: an oEmbed failure of kind not-found/unavailable is ignored.
FastPathDecision_NoAbort(oembed_result, captions_result) ==
  IF captions_result.ok THEN "fast" ELSE "slow"

\* Mutant: the captions result is never used.
FastPathDecision_NeverFast(oembed_result, captions_result) ==
  IF ~oembed_result.ok /\ IsTargetMissing(oembed_result) THEN "abort" ELSE "slow"

\* Mutant: captions are used only when the oEmbed lookup succeeded.
FastPathDecision_FailedMetadataGoesSlow(oembed_result, captions_result) ==
  IF ~oembed_result.ok /\ IsTargetMissing(oembed_result) THEN "abort"
  ELSE IF captions_result.ok /\ oembed_result.ok THEN "fast"
  ELSE "slow"

FastPathDecision(oembed_result, captions_result) ==
  IF ~oembed_result.ok /\ IsTargetMissing(oembed_result) THEN "abort"
  ELSE IF captions_result.ok THEN "fast"
  ELSE "slow"

(***************************************************************************)
(* download_audio: the first attempt, the retry without proxy, the retry   *)
(* through Webshare, and the classification of the yt-dlp error.           *)
(***************************************************************************)
\* settings: webshare_proxy_enabled and username, proxy_enabled and url, tor_proxy_enabled
ProxySettings ==
  [ webshare : BOOLEAN, residential : BOOLEAN, tor : BOOLEAN ]

\* opts["proxy"]: Webshare > Residential > Tor > the key is not set
get_common_ydl_opts(settings) ==
  IF settings.webshare THEN "webshare"
  ELSE IF settings.residential THEN "residential"
  ELSE IF settings.tor THEN "tor"
  ELSE "unset"

\* _ydl_opts_without_proxy: yt-dlp treats the empty string as "no proxy"
ydl_opts_without_proxy ==
  ""

\* What one _download_with_opts call meets: a downloaded file, info is None,
\* no file on disk, or a yt_dlp.utils.DownloadError with one of the messages.
ExtractorOutcomes ==
  {"ok", "no_info", "no_file"} \cup MessageIds

download_with_opts(o) ==
  CASE o = "ok" -> Ok("audio", 0)
    [] o = "no_info" -> Err("VideoNotFoundError", "no_info")
    [] o = "no_file" -> Err("DownloadError", "no_file")
    [] OTHER -> Err("yt_dlp.DownloadError", o)

\* error_class = classify_youtube_error(error_msg), then the raise of that class
RaiseClassified(msg) ==
  Err(classify_youtube_error(MessageText[msg]), msg)

\* Where the handler of yt_dlp.utils.DownloadError goes after the attempt of
\* the given stage failed with msg.
AfterDownloadError(stage, msg, settings) ==
  IF /\ stage = "first"
     /\ is_proxy_error(MessageText[msg])
     /\ get_common_ydl_opts(settings) # ydl_opts_without_proxy
    THEN "no_proxy"
  ELSE IF /\ stage \in {"first", "no_proxy"}
          /\ is_innertube_context_error(MessageText[msg])
          /\ settings.webshare
    THEN "webshare"
  ELSE "raised"

DownloadInit ==
  /\ dSettings \in ProxySettings
  /\ dPc = "first"
  /\ dAttempts = <<>>
  /\ dMsg = "none"
  /\ dOut = None_

DownloadIdle ==
  /\ dSettings = [webshare |-> FALSE, residential |-> FALSE, tor |-> FALSE]
  /\ dPc = "idle"
  /\ dAttempts = <<>>
  /\ dMsg = "none"
  /\ dOut = None_

\* What becomes of an exception that is not a yt_dlp.utils.DownloadError: raised
\* by the first attempt it is caught by `except Exception` and replaced by a
\* YouTubeError; raised by a retry, inside the handler of DownloadError, it
\* leaves download_audio as it is.
Propagated(stage, r) ==
  IF stage = "first" THEN Err("YouTubeError", r.msg) ELSE r

\* One _download_with_opts call ends.
DownloadAttemptEnds(stage, proxy) ==
  /\ dPc = stage
  /\ \E o \in ExtractorOutcomes :
       LET r == download_with_opts(o) IN
         /\ dAttempts' = Append(dAttempts, proxy)
         /\ IF r.ok
              THEN /\ dOut' = r
                   /\ dPc' = "returned"
                   /\ UNCHANGED dMsg
            ELSE IF r.cls # "yt_dlp.DownloadError"
              THEN /\ dOut' = Propagated(stage, r)
                   /\ dPc' = "raised"
                   /\ UNCHANGED dMsg
            ELSE /\ dMsg' = o
                 /\ dPc' = AfterDownloadError(stage, o, dSettings)
                 /\ dOut' = IF AfterDownloadError(stage, o, dSettings) = "raised"
                              THEN RaiseClassified(o) ELSE dOut
  /\ UNCHANGED dSettings

\* try: return _download_with_opts(ydl_opts)
DownloadFirstAttemptEnds ==
  /\ UNCHANGED <<retryVars, engineVars, captionVars>>
  /\ DownloadAttemptEnds("first", get_common_ydl_opts(dSettings))

\* return _download_with_opts(_ydl_opts_without_proxy(ydl_opts))
DownloadNoProxyRetryEnds ==
  /\ UNCHANGED <<retryVars, engineVars, captionVars>>
  /\ DownloadAttemptEnds("no_proxy", ydl_opts_without_proxy)

\* return _download_with_opts(webshare_opts)
DownloadWebshareRetryEnds ==
  /\ UNCHANGED <<retryVars, engineVars, captionVars>>
  /\ DownloadAttemptEnds("webshare", "webshare")

(***************************************************************************)
(* _fetch_youtube_captions: the four stages of Tier 1.                     *)
(***************************************************************************)
\* Stage 1 .. Stage 4
CaptionStages ==
  <<"webshare", "direct", "residential", "tor">>

\* The guard of a stage: webshare_proxy, residential_proxy, tor_proxy is not
\* None; the direct stage has no such guard.
Configured(option, settings) ==
  option = "direct" \/ settings[option]

\* What one ytt.fetch call meets: a transcript, or one of the library's errors.
FetchOutcomes ==
  { "ok", "IpBlocked", "TranscriptsDisabled", "NoTranscriptFound" }

\* Mutant: the residential stage is left out.
NextCaptionStage_SkipsResidential(stage) ==
  CASE stage = "webshare" -> "direct"
    [] stage = "direct" -> "tor"
    [] stage = "residential" -> "tor"
    [] OTHER -> "end"

\* The stage whose `if` follows the given stage's.
NextCaptionStage(stage) ==
  CASE stage = "webshare" -> "direct"
    [] stage = "direct" -> "residential"
    [] stage = "residential" -> "tor"
    [] OTHER -> "end"

CaptionsInit ==
  /\ cSettings \in ProxySettings
  /\ cPc = "webshare"
  /\ cAttempts = <<>>
  /\ cErrors = <<>>
  /\ cOut = None_

CaptionsIdle ==
  /\ cSettings = [webshare |-> FALSE, residential |-> FALSE, tor |-> FALSE]
  /\ cPc = "idle"
  /\ cAttempts = <<>>
  /\ cErrors = <<>>
  /\ cOut = None_

\* After a stage that left transcript None: the next stage, or, after the
\* last one, raise Exception("All Tier 1 attempts failed: ...").
AfterCaptionStage(stage, errors) ==
  /\ cPc' = IF NextCaptionStage(stage) = "end" THEN "raised" ELSE NextCaptionStage(stage)
  /\ cOut' = IF NextCaptionStage(stage) = "end"
               THEN Err("Exception", errors) ELSE cOut

\* One stage: skipped when its option is not configured, else one fetch.
CaptionStage(option) ==
  /\ cPc = option
  /\ IF ~Configured(option, cSettings)
       THEN /\ AfterCaptionStage(option, cErrors)
            /\ UNCHANGED <<cAttempts, cErrors>>
       ELSE \E o \in FetchOutcomes :
              /\ cAttempts' = Append(cAttempts, option)
              /\ IF o = "ok"
                   \* transcript is set: the later stages are skipped
                   THEN /\ cPc' = "returned"
                        /\ cOut' = Ok("caption_text", 200)
                        /\ UNCHANGED cErrors
                   ELSE /\ cErrors' = Append(cErrors, <<option, o>>)
                        /\ AfterCaptionStage(option, cErrors')
  /\ UNCHANGED cSettings

\* Stage 1: Webshare rotating residential proxy
CaptionsWebshareStage ==
  /\ UNCHANGED <<retryVars, engineVars, downloadVars>>
  /\ CaptionStage("webshare")

\* Stage 2: direct (no proxy)
CaptionsDirectStage ==
  /\ UNCHANGED <<retryVars, engineVars, downloadVars>>
  /\ CaptionStage("direct")

\* Stage 3: residential proxy (if configured)
CaptionsResidentialStage ==
  /\ UNCHANGED <<retryVars, engineVars, downloadVars>>
  /\ CaptionStage("residential")

\* Stage 4: Tor proxy
CaptionsTorStage ==
  /\ UNCHANGED <<retryVars, engineVars, downloadVars>>
  /\ CaptionStage("tor")

(***************************************************************************)
(* get_transcript                                                          *)
(***************************************************************************)
NoGtOut ==
  [kind |-> "none", method |-> "", text |-> "", cls |-> "", parts |-> <<>>, recs |-> <<>>]

GtReturn(method, result) ==
  [kind |-> "return", method |-> method, text |-> result.text, cls |-> "", parts |-> <<>>,
   recs |-> <<>>]

GtRaise(cls, parts) ==
  [kind |-> "raise", method |-> "", text |-> "", cls |-> cls, parts |-> parts,
   recs |-> <<>>]

NoTierErrors ==
  [t \in 1..4 |-> None_]

TierLabel ==
  <<"Captions", "yt-dlp", "pytubefix", "Direct">>

\* Mutant: Tier 1 is tried whatever prefer_diarization is.
FirstTier_NeverSkips(prefer_diarization) ==
  "tier1"

\* if not prefer_diarization: Tier 1 is tried, else it is skipped
FirstTier(prefer_diarization) ==
  IF prefer_diarization THEN "tier2" ELSE "tier1"

\* Mutant: a not-found/unavailable error of a download tier leaves the ladder.
AfterTierError_ShortCircuit(tier, e) ==
  IF IsTargetMissing(e) THEN "raise" ELSE "next"

\* Every except clause of tiers 1-3 stores the error and falls through to the next tier.
AfterTierError(tier, e) ==
  "next"

RECURSIVE ErrorParts(_, _)
\* error_parts: one "<label>: <error>" per tier whose error is set, in tier order
ErrorParts(errs, t) ==
  IF t > 4 THEN <<>>
  ELSE (IF errs[t] = None_ THEN <<>> ELSE << <<TierLabel[t], errs[t].msg>> >>)
       \o ErrorParts(errs, t + 1)

\* recommendations.append(rec) under an if
RecIf(cond, rec) ==
  IF cond THEN <<rec>> ELSE <<>>

\* The recommendations the error of tier t adds; error_str = str(tierN_error).lower()
TierRecommendations(t, error_str) ==
  CASE t = 1 ->
         RecIf(ContainsAny(error_str, { <<"b","l","o","c","k","i","n","g">>, <<"i","p">> }),
               "YouTube is blocking requests from this IP")
    [] t = 2 ->
         RecIf(ContainsAny(error_str, { <<"s","i","g","n"," ","i","n">>, <<"b","o","t">>,
                                        <<"p","l","a","y","e","r"," ","r","e","s","p","o","n","s","e">> }),
               "YouTube is blocking yt-dlp requests")
         \o RecIf(ContainsAny(error_str, { <<"c","o","o","k","i","e","s">>, <<"a","g","e">> }),
                  "Update cookies.txt with fresh browser cookies")
         \o RecIf(ContainsAny(error_str, { <<"4","2","9">>, <<"r","a","t","e">> }),
                  "Rate limited - try again later")
         \o RecIf(is_innertube_context_error(error_str),
                  "Update yt-dlp to the latest version")
    [] t = 3 ->
         RecIf(ContainsAny(error_str, { <<"b","o","t">>, <<"s","i","g","n"," ","i","n">> }),
               "YouTube is blocking pytubefix requests")
    [] OTHER -> <<>>

RECURSIVE Recommendations(_, _)
\* recommendations: what the tiers whose error is set add, in tier order
Recommendations(errs, t) ==
  IF t > 4 THEN <<>>
  ELSE (IF errs[t] = None_ THEN <<>>
        ELSE TierRecommendations(t, Lower(TierErrorText[errs[t].msg])))
       \o Recommendations(errs, t + 1)

RECURSIVE Unique(_)
\* list(dict.fromkeys(recommendations)): every value once, at its first position
Unique(recommendations) ==
  IF recommendations = <<>> THEN <<>>
  ELSE LET n == Len(recommendations)
           init == Unique(SubSeq(recommendations, 1, n - 1))
       IN IF \E i \in DOMAIN init : init[i] = recommendations[n]
            THEN init ELSE Append(init, recommendations[n])

\* Mutant: the duplicates are removed but the order is turned round.
Unique_Reversed(recommendations) ==
  [i \in 1..Len(Unique(recommendations)) |->
     Unique(recommendations)[Len(Unique(recommendations)) + 1 - i]]

\* unique_recommendations
UniqueRecommendations(recommendations) ==
  Unique(recommendations)

\* Mutant: the error raised names the last tier's error only.
AllTiersFailed_LastOnly(errs) ==
  [kind |-> "raise", method |-> "", text |-> "", cls |-> "NoCaptionsAvailableError",
   parts |-> << <<"Direct", errs[4].msg>> >>, recs |-> <<>>]

\* Mutant: no recommendation is added to the error.
AllTiersFailed_NoRecommendations(errs) ==
  GtRaise("NoCaptionsAvailableError", ErrorParts(errs, 1))

\* raise NoCaptionsAvailableError(...)
AllTiersFailed(errs) ==
  [ GtRaise("NoCaptionsAvailableError", ErrorParts(errs, 1))
      EXCEPT !.recs = UniqueRecommendations(Recommendations(errs, 1)) ]

\* the caller of get_transcript resumes once it has returned or raised
CallerPc(out) ==
  IF entry = "get_transcript" /\ out.kind # "none" THEN "done" ELSE pc

\* Mutant: after a failed yt-dlp tier the ladder goes straight to the direct tier.
NextTier_SkipsPytubefix(tier) ==
  IF tier = 2 THEN "tier4" ELSE <<"tier2", "tier3", "tier4", "failed">>[tier]

\* The tier whose try block follows tier's except clauses.
NextTier(tier) ==
  <<"tier2", "tier3", "tier4", "failed">>[tier]

\* get_transcript(video_url, temp_dir, ..., prefer_diarization) called directly
CallGetTranscript ==
  /\ UNCHANGED <<retryVars, downloadVars, captionVars, orphans>>
  /\ pc = "idle"
  /\ entry' = "get_transcript"
  /\ IF ~Validated(req)
       THEN /\ gtOut' = GtRaise("VideoNotFoundError", << <<"", "invalid_url">> >>)
            /\ gtPc' = "raised"
            /\ pc' = "done"
       ELSE /\ gtOut' = NoGtOut
            /\ gtPc' = FirstTier(req.prefer)
            /\ pc' = "in_get_transcript"
  /\ UNCHANGED <<phase, first, world, req, metaRes, capRes, tempDir, gtErrs, sl, race,
                 events, resp, calls>>

\* --- Tier 1: youtube-transcript-api ---
GtTier1 ==
  /\ UNCHANGED <<retryVars, downloadVars, captionVars, orphans>>
  /\ gtPc = "tier1"
  /\ \E r \in Answers("cap", CaptionAnswers) :
       /\ world' = [world EXCEPT !["cap"] = r]
       /\ calls' = Append(calls, "captions")
       /\ IF r.ok
            THEN /\ gtOut' = GtReturn("youtube_captions", r)
                 /\ gtPc' = "returned"
                 /\ UNCHANGED gtErrs
            ELSE /\ gtErrs' = [gtErrs EXCEPT ![1] = r]
                 /\ gtPc' = NextTier(1)
                 /\ UNCHANGED gtOut
       /\ pc' = CallerPc(gtOut')
  /\ UNCHANGED <<phase, first, entry, req, metaRes, capRes, tempDir, sl, race, events, resp>>

\* A download tier: download, then transcribe_audio on the downloaded file.
DownloadTier(tier, dlKey, trKey, dlAnswers, dlCall, method) ==
  /\ \E d \in Answers(dlKey, dlAnswers) :
       IF d.ok
         THEN \E t \in Answers(trKey, TranscribeAnswers(d.dur)) :
                /\ world' = [world EXCEPT ![dlKey] = d, ![trKey] = t]
                /\ calls' = calls \o <<dlCall, "transcribe">>
                /\ IF t.ok
                     THEN /\ gtOut' = GtReturn(method, t)
                          /\ gtPc' = "returned"
                          /\ UNCHANGED gtErrs
                     ELSE /\ gtErrs' = [gtErrs EXCEPT ![tier] = t]
                          /\ gtPc' = IF AfterTierError(tier, t) = "next"
                                       THEN NextTier(tier) ELSE "raised"
                          /\ gtOut' = IF AfterTierError(tier, t) = "next"
                                        THEN gtOut ELSE GtRaise(t.cls, << <<"", t.msg>> >>)
         ELSE /\ world' = [world EXCEPT ![dlKey] = d]
              /\ calls' = Append(calls, dlCall)
              /\ gtErrs' = [gtErrs EXCEPT ![tier] = d]
              /\ gtPc' = IF AfterTierError(tier, d) = "next"
                           THEN NextTier(tier) ELSE "raised"
              /\ gtOut' = IF AfterTierError(tier, d) = "next"
                            THEN gtOut ELSE GtRaise(d.cls, << <<"", d.msg>> >>)
  /\ pc' = CallerPc(gtOut')
  /\ UNCHANGED <<phase, first, entry, req, metaRes, capRes, tempDir, sl, race, events, resp>>

\* --- Tier 2: yt-dlp + AssemblyAI ---
GtTier2 ==
  /\ UNCHANGED <<retryVars, downloadVars, captionVars, orphans>>
  /\ gtPc = "tier2"
  /\ DownloadTier(2, "ytdlp", "tr_ytdlp", YtdlpAnswers, "ytdlp", "ytdlp_assemblyai")

\* --- Tier 3: pytubefix + AssemblyAI ---
GtTier3 ==
  /\ UNCHANGED <<retryVars, downloadVars, captionVars, orphans>>
  /\ gtPc = "tier3"
  /\ DownloadTier(3, "pytubefix", "tr_pytubefix", PytubefixAnswers, "pytubefix",
                  "pytubefix_assemblyai")

\* --- Tier 4: AssemblyAI direct URL ---, then the all-tiers-failed error
GtTier4 ==
  /\ UNCHANGED <<retryVars, downloadVars, captionVars, orphans>>
  /\ gtPc = "tier4"
  /\ \E r \in Answers("direct", DirectAnswers) :
       /\ world' = [world EXCEPT !["direct"] = r]
       /\ calls' = Append(calls, "direct")
       /\ IF r.ok
            THEN /\ gtOut' = GtReturn("assemblyai_direct", r)
                 /\ gtPc' = "returned"
                 /\ UNCHANGED gtErrs
            ELSE /\ gtErrs' = [gtErrs EXCEPT ![4] = r]
                 /\ gtOut' = AllTiersFailed(gtErrs')
                 /\ gtPc' = "raised"
       /\ pc' = CallerPc(gtOut')
  /\ UNCHANGED <<phase, first, entry, req, metaRes, capRes, tempDir, sl, race, events, resp>>

(***************************************************************************)
(* The fan-out shared by both endpoints: oEmbed and Tier 1 in two threads. *)
(***************************************************************************)
\* gather without waiting for the second thread
GatherReturned_OnFirstResult(oembed_result, captions_result) ==
  Finished(oembed_result) \/ Finished(captions_result)

\* await asyncio.gather(oembed_task, captions_task, return_exceptions=True)
\* returns once both threads have returned or raised
GatherReturned(oembed_result, captions_result) ==
  Finished(oembed_result) /\ Finished(captions_result)

OembedFinishes ==
  /\ UNCHANGED <<retryVars, downloadVars, captionVars, orphans>>
  /\ pc = "gather"
  /\ metaRes = Pending
  /\ \E http \in HttpOutcomes : metaRes' = get_metadata_via_oembed(http)
  /\ UNCHANGED <<phase, first, world, entry, req, pc, capRes, tempDir, gtPc, gtErrs,
                 gtOut, sl, race, events, resp, calls>>

CaptionsFinishes ==
  /\ UNCHANGED <<retryVars, downloadVars, captionVars, orphans>>
  /\ pc = "gather"
  /\ capRes = Pending
  /\ \E r \in Answers("cap", CaptionAnswers) :
       /\ capRes' = r
       /\ world' = [world EXCEPT !["cap"] = r]
  /\ UNCHANGED <<phase, first, entry, req, pc, metaRes, tempDir, gtPc, gtErrs,
                 gtOut, sl, race, events, resp, calls>>

(***************************************************************************)
(* POST /transcribe                                                        *)
(***************************************************************************)
PostTranscribe ==
  /\ UNCHANGED <<retryVars, downloadVars, captionVars, orphans>>
  /\ pc = "idle"
  /\ entry' = "transcribe"
  /\ IF ~Validated(req)
       THEN /\ resp' = Failure(<< <<"", "invalid_url">> >>)
            /\ pc' = "done"
            /\ UNCHANGED <<metaRes, capRes, calls>>
       ELSE /\ metaRes' = Pending
            /\ capRes' = Pending
            /\ calls' = calls \o <<"oembed", "captions">>
            /\ pc' = "gather"
            /\ UNCHANGED resp
  /\ UNCHANGED <<phase, first, world, req, tempDir, gtPc, gtErrs, gtOut, sl, race, events>>

\* Mutant: the endpoint lets get_transcript start with the caption tier.
SkipTier1_No ==
  FALSE

\* get_transcript(..., prefer_diarization=True): "Skip Tier 1 (already tried
\* above)"
SkipTier1 ==
  TRUE

\* from the return of gather to the await of get_transcript, or to a return
TranscribeAfterGather ==
  /\ UNCHANGED <<retryVars, downloadVars, captionVars, orphans>>
  /\ entry = "transcribe"
  /\ pc = "gather"
  /\ GatherReturned(metaRes, capRes)
  /\ LET decision == FastPathDecision(metaRes, capRes) IN
       CASE decision = "abort" ->
              /\ resp' = Failure(<< <<"", metaRes.msg>> >>)
              /\ pc' = "done"
              /\ UNCHANGED <<tempDir, gtPc, world>>
         [] decision = "fast" ->
              /\ resp' = Success("youtube_captions", capRes.text,
                                 MetadataOrSynthesized(metaRes))
              /\ pc' = "done"
              /\ UNCHANGED <<tempDir, gtPc, world>>
         [] OTHER ->
              \E td \in Answers("mkdtemp", MkdtempAnswers) :
                /\ world' = [world EXCEPT !["mkdtemp"] = td]
                /\ IF td.ok
                     THEN /\ tempDir' = "exists"
                          /\ gtPc' = FirstTier(SkipTier1)
                          /\ pc' = "in_get_transcript"
                          /\ UNCHANGED resp
                     \* except Exception: "Unexpected error: ..."
                     ELSE /\ resp' = Failure(<< <<"Unexpected error", td.msg>> >>)
                          /\ pc' = "done"
                          /\ UNCHANGED <<tempDir, gtPc>>
  /\ UNCHANGED <<phase, first, entry, req, metaRes, capRes, gtErrs, gtOut, sl,
                 race, events, calls>>

\* get_transcript has returned or raised; the response is built and finally runs
TranscribeAfterGetTranscript ==
  /\ UNCHANGED <<retryVars, downloadVars, captionVars, orphans>>
  /\ entry = "transcribe"
  /\ pc = "in_get_transcript"
  /\ gtOut.kind # "none"
  /\ resp' = IF gtOut.kind = "return"
               THEN Success(gtOut.method, gtOut.text, MetadataOrSynthesized(metaRes))
             ELSE IF gtOut.cls \in {"VideoNotFoundError", "VideoUnavailableError"}
               THEN Failure(gtOut.parts)
             ELSE Failure(gtOut.parts \o << <<"Fast-path Captions", capRes.msg>> >>)
  /\ tempDir' = Cleanup(tempDir)
  /\ pc' = "done"
  /\ UNCHANGED <<phase, first, world, entry, req, metaRes, capRes, gtPc, gtErrs, gtOut,
                 sl, race, events, calls>>

(***************************************************************************)
(* POST /transcribe/stream: event_generator                                *)
(***************************************************************************)
NoStreamLocals ==
  [download_method |-> "", download_error |-> None_, duration |-> 0,
   metadata |-> NoMetadata]

NoRace ==
  [partial |-> None_, full |-> None_, partial_result |-> None_, full_result |-> None_,
   order |-> <<>>, inspected |-> {}]

\* world key of the transcription of the audio the given downloader produced
TrKey(download_method) ==
  IF download_method = "ytdlp_assemblyai" THEN "tr_ytdlp" ELSE "tr_pytubefix"

PostStream ==
  /\ UNCHANGED <<retryVars, downloadVars, captionVars, orphans>>
  /\ pc = "idle"
  /\ entry' = "stream"
  /\ IF ~Validated(req)
       THEN /\ events' = Append(events, ErrorEvent("validation", << <<"", "invalid_url">> >>))
            /\ pc' = "done"
            /\ UNCHANGED <<metaRes, capRes, calls>>
       ELSE /\ metaRes' = Pending
            /\ capRes' = Pending
            /\ calls' = calls \o <<"oembed", "captions">>
            /\ pc' = "gather"
            /\ UNCHANGED events
  /\ UNCHANGED <<phase, first, world, req, tempDir, gtPc, gtErrs, gtOut, sl, race, resp>>

MetadataEvents(oembed_result) ==
  IF oembed_result.ok
    THEN << Event("metadata", "", "", "", MetadataOrSynthesized(oembed_result), <<>>) >>
    ELSE <<>>

\* from the return of gather to the await of download_audio, or to a return
StreamAfterGather ==
  /\ UNCHANGED <<retryVars, downloadVars, captionVars, orphans>>
  /\ entry = "stream"
  /\ pc = "gather"
  /\ GatherReturned(metaRes, capRes)
  /\ LET decision == FastPathDecision(metaRes, capRes) IN
       CASE decision = "abort" ->
              /\ events' = Append(events, ErrorEvent("metadata", << <<"", metaRes.msg>> >>))
              /\ pc' = "done"
              /\ UNCHANGED <<tempDir, sl, calls, world>>
         [] decision = "fast" ->
              /\ events' = events \o MetadataEvents(metaRes) \o
                   << CompleteEvent("youtube_captions", capRes.text,
                                    MetadataOrSynthesized(metaRes)) >>
              /\ pc' = "done"
              /\ UNCHANGED <<tempDir, sl, calls, world>>
         [] OTHER ->
              \E td \in Answers("mkdtemp", MkdtempAnswers) :
                /\ world' = [world EXCEPT !["mkdtemp"] = td]
                /\ IF td.ok
                     THEN /\ events' = events \o MetadataEvents(metaRes)
                          /\ tempDir' = "exists"
                          /\ sl' = [NoStreamLocals EXCEPT
                                      !.download_method = "ytdlp_assemblyai",
                                      !.metadata = MetadataOrSynthesized(metaRes)]
                          /\ calls' = Append(calls, "ytdlp")
                          /\ pc' = "download_ytdlp"
                     \* the outer except Exception: error event, phase "transcription"
                     ELSE /\ events' = events \o MetadataEvents(metaRes) \o
                               << ErrorEvent("transcription", << <<"", td.msg>> >>) >>
                          /\ pc' = "done"
                          /\ UNCHANGED <<tempDir, sl, calls>>
  /\ UNCHANGED <<phase, first, entry, req, metaRes, capRes, gtPc, gtErrs, gtOut,
                 race, resp>>

\* Mutant: a video of exactly the threshold duration gets a partial too.
AfterDownloadPc_Inclusive(duration) ==
  IF duration >= PARTIAL_THRESHOLD_SECS THEN "trim" ELSE "full_only"

\* duration > PARTIAL_THRESHOLD_SECS: trim first, else transcribe the whole file only
AfterDownloadPc(duration) ==
  IF duration > PARTIAL_THRESHOLD_SECS THEN "trim" ELSE "full_only"

AfterDownloadCall(duration) ==
  IF duration > PARTIAL_THRESHOLD_SECS THEN "trim" ELSE "transcribe"

\* download_audio returns or raises; the generator runs to its next await or return
StreamYtdlpEnds ==
  /\ UNCHANGED <<retryVars, downloadVars, captionVars, orphans>>
  /\ entry = "stream"
  /\ pc = "download_ytdlp"
  /\ \E d \in Answers("ytdlp", YtdlpAnswers) :
       /\ world' = [world EXCEPT !["ytdlp"] = d]
       /\ IF d.ok
            THEN /\ sl' = [sl EXCEPT !.duration = d.dur]
                 /\ pc' = AfterDownloadPc(d.dur)
                 /\ calls' = Append(calls, AfterDownloadCall(d.dur))
                 /\ UNCHANGED <<events, tempDir>>
            ELSE IF IsTargetMissing(d)
              THEN /\ events' = Append(events, ErrorEvent("download", << <<"", d.msg>> >>))
                   /\ tempDir' = Cleanup(tempDir)
                   /\ pc' = "done"
                   /\ UNCHANGED <<sl, calls>>
              ELSE /\ sl' = [sl EXCEPT !.download_error = d]
                   /\ calls' = Append(calls, "pytubefix")
                   /\ pc' = "download_pytubefix"
                   /\ UNCHANGED <<events, tempDir>>
  /\ UNCHANGED <<phase, first, entry, req, metaRes, capRes, gtPc, gtErrs, gtOut, race, resp>>

StreamPytubefixEnds ==
  /\ UNCHANGED <<retryVars, downloadVars, captionVars, orphans>>
  /\ entry = "stream"
  /\ pc = "download_pytubefix"
  /\ \E d \in Answers("pytubefix", PytubefixAnswers) :
       /\ world' = [world EXCEPT !["pytubefix"] = d]
       /\ IF d.ok
            THEN /\ sl' = [sl EXCEPT !.duration = d.dur,
                                     !.download_method = "pytubefix_assemblyai"]
                 /\ pc' = AfterDownloadPc(d.dur)
                 /\ calls' = Append(calls, AfterDownloadCall(d.dur))
                 /\ UNCHANGED <<events, tempDir>>
            ELSE IF IsTargetMissing(d)
              THEN /\ events' = Append(events, ErrorEvent("download", << <<"", d.msg>> >>))
                   /\ tempDir' = Cleanup(tempDir)
                   /\ pc' = "done"
                   /\ UNCHANGED <<sl, calls>>
              ELSE /\ sl' = [sl EXCEPT !.download_error = d]
                   /\ calls' = Append(calls, "direct")
                   /\ pc' = "direct"
                   /\ UNCHANGED <<events, tempDir>>
  /\ UNCHANGED <<phase, first, entry, req, metaRes, capRes, gtPc, gtErrs, gtOut, race, resp>>

\* Both downloaders failed: _fetch_with_assemblyai_direct returns or raises
StreamDirectEnds ==
  /\ UNCHANGED <<retryVars, downloadVars, captionVars, orphans>>
  /\ entry = "stream"
  /\ pc = "direct"
  /\ \E r \in Answers("direct", DirectAnswers) :
       /\ world' = [world EXCEPT !["direct"] = r]
       /\ events' = Append(events,
            IF r.ok
              THEN CompleteEvent("assemblyai_direct", r.text, sl.metadata)
              ELSE ErrorEvent("download",
                     << <<"Last", sl.download_error.msg>>, <<"AssemblyAI direct", r.msg>> >>))
  /\ tempDir' = Cleanup(tempDir)
  /\ pc' = "done"
  /\ UNCHANGED <<phase, first, entry, req, metaRes, capRes, gtPc, gtErrs, gtOut, sl, race,
                 resp, calls>>

\* Mutant: the race is started whether or not there is a trimmed file.
AfterTrim_AlwaysRace(trimmed) ==
  "race"

\* if trimmed_path: both transcriptions are started, else only the full one
AfterTrim(trimmed) ==
  IF trimmed.ok THEN "race" ELSE "full_only"

\* trim_audio returns or raises
StreamTrimEnds ==
  /\ UNCHANGED <<retryVars, downloadVars, captionVars, orphans>>
  /\ entry = "stream"
  /\ pc = "trim"
  /\ \E r \in Answers("trim", TrimAnswers) :
       /\ world' = [world EXCEPT !["trim"] = r]
       /\ IF AfterTrim(r) = "race"
            THEN /\ race' = [NoRace EXCEPT !.partial = Pending, !.full = Pending]
                 /\ calls' = calls \o <<"transcribe_clip", "transcribe">>
                 /\ pc' = "race"
            ELSE /\ calls' = Append(calls, "transcribe")
                 /\ pc' = "full_only"
                 /\ UNCHANGED race
  /\ UNCHANGED <<phase, first, entry, req, metaRes, capRes, tempDir, gtPc, gtErrs, gtOut,
                 sl, events, resp>>

\* the only transcription (short video, or the trim failed) returns or raises
StreamFullOnlyEnds ==
  /\ UNCHANGED <<retryVars, downloadVars, captionVars, orphans>>
  /\ entry = "stream"
  /\ pc = "full_only"
  /\ \E r \in Answers(TrKey(sl.download_method), TranscribeAnswers(sl.duration)) :
       /\ world' = [world EXCEPT ![TrKey(sl.download_method)] = r]
       /\ events' = Append(events,
            IF r.ok
              THEN CompleteEvent(sl.download_method, r.text, sl.metadata)
              ELSE ErrorEvent("transcription", << <<"", r.msg>> >>))
  /\ tempDir' = Cleanup(tempDir)
  /\ pc' = "done"
  /\ UNCHANGED <<phase, first, entry, req, metaRes, capRes, gtPc, gtErrs, gtOut, sl, race,
                 resp, calls>>

(***************************************************************************)
(* The partial/full race.                                                  *)
(***************************************************************************)
RaceOps ==
  {"partial", "full"}

\* the thread running transcribe_audio on the clip ends
PartialFinishes ==
  /\ UNCHANGED <<retryVars, downloadVars, captionVars, orphans>>
  /\ pc \in {"race", "pending"}
  /\ race.partial = Pending
  /\ \E r \in Answers("partial", ClipTranscribeAnswers(sl.duration)) :
       /\ world' = [world EXCEPT !["partial"] = r]
       /\ race' = [race EXCEPT !.partial = r, !.order = Append(@, "partial")]
  /\ UNCHANGED <<phase, first, entry, req, pc, metaRes, capRes, tempDir, gtPc, gtErrs,
                 gtOut, sl, events, resp, calls>>

\* the thread running transcribe_audio on the whole file ends
FullFinishes ==
  /\ UNCHANGED <<retryVars, downloadVars, captionVars, orphans>>
  /\ pc \in {"race", "pending"}
  /\ race.full = Pending
  /\ \E r \in Answers(TrKey(sl.download_method), TranscribeAnswers(sl.duration)) :
       /\ world' = [world EXCEPT ![TrKey(sl.download_method)] = r]
       /\ race' = [race EXCEPT !.full = r, !.order = Append(@, "full")]
  /\ UNCHANGED <<phase, first, entry, req, pc, metaRes, capRes, tempDir, gtPc, gtErrs,
                 gtOut, sl, events, resp, calls>>

\* Mutant: a result counts as the partial one whatever its audio_duration.
IsPartialResult_Always(result) ==
  TRUE

\* result.get("audio_duration", 0) <= PARTIAL_DURATION_SECS + 10
IsPartialResult(result) ==
  result.dur <= PARTIAL_DURATION_SECS + PartialSlackSecs

\* Mutant: the partial is yielded even when the full result is already there.
ShouldYieldPartial_IgnoresFull(partial_result, full_result) ==
  partial_result # None_

\* if partial_result and not full_result
ShouldYieldPartial(partial_result, full_result) ==
  partial_result # None_ /\ full_result = None_

\* Mutant: the clip's transcript goes out as a 'complete' event.
PartialEvent_AsComplete(partial_result) ==
  Event("complete", "", "", partial_result.text, NoMetadata, <<>>)

PartialEvent(partial_result) ==
  Event("partial", "", "", partial_result.text, NoMetadata, <<>>)

\* Mutant: the race always ends in a 'complete' event.
RaceTerminal_AlwaysComplete(full_result, failure, method, metadata) ==
  CompleteEvent(method, full_result.text, metadata)

\* How the race ends: the error event of a pending task that raised, the
\* "Transcription failed" error event when there is no full_result, or the
\* complete event built from full_result.
RaceTerminal(full_result, failure, method, metadata) ==
  IF failure # None_ THEN ErrorEvent("transcription", << <<"", failure.msg>> >>)
  ELSE IF full_result = None_
    THEN ErrorEvent("transcription", << <<"", "transcription_failed_literal">> >>)
  ELSE CompleteEvent(method, full_result.text, metadata)

PickLast(candidates) ==
  IF candidates = {} THEN {None_} ELSE candidates

\* asyncio.wait(FIRST_COMPLETED) returns; the generator runs the loop over done,
\* yields the partial if it has to, and reaches the second wait or a return
StreamInspectsDone ==
  /\ UNCHANGED <<retryVars, downloadVars, captionVars, orphans>>
  /\ entry = "stream"
  /\ pc = "race"
  /\ LET done == {op \in RaceOps : Finished(race[op])}
         pending == RaceOps \ done
         returned == {race[op] : op \in {o \in done : race[o].ok}}
     IN
       /\ done # {}
       /\ \E pr \in PickLast({r \in returned : IsPartialResult(r)}),
             fr \in PickLast({r \in returned : ~IsPartialResult(r)}) :
            LET yielded == IF ShouldYieldPartial(pr, fr)
                             THEN << PartialEvent(pr) >> ELSE <<>>
            IN
              /\ race' = [race EXCEPT !.partial_result = pr, !.full_result = fr,
                                      !.inspected = done]
              /\ IF pending # {}
                   THEN /\ events' = events \o yielded
                        /\ pc' = "pending"
                        /\ UNCHANGED tempDir
                   ELSE /\ events' = events \o yielded \o
                             << RaceTerminal(fr, None_, sl.download_method, sl.metadata) >>
                        /\ tempDir' = Cleanup(tempDir)
                        /\ pc' = "done"
  /\ UNCHANGED <<phase, first, world, entry, req, metaRes, capRes, gtPc, gtErrs, gtOut, sl,
                 resp, calls>>

\* Mutant: the second wait gives up on the remaining task.
PendingWaitReturned_Abandons(task) ==
  TRUE

\* done2, _ = await asyncio.wait(pending): returns when the remaining task has
\* returned or raised
PendingWaitReturned(task) ==
  Finished(task)

\* asyncio.wait(pending) returns: whatever the remaining task returned becomes
\* full_result, whatever it raised ends the stream
StreamPendingEnds ==
  /\ UNCHANGED <<retryVars, downloadVars, captionVars, orphans>>
  /\ entry = "stream"
  /\ pc = "pending"
  /\ LET op == CHOOSE o \in RaceOps : o \notin race.inspected
         r == race[op]
     IN
       /\ PendingWaitReturned(r)
       /\ IF r.ok
            THEN /\ race' = [race EXCEPT !.full_result = r]
                 /\ events' = Append(events,
                      RaceTerminal(r, None_, sl.download_method, sl.metadata))
            ELSE /\ events' = Append(events,
                      RaceTerminal(race.full_result, r, sl.download_method, sl.metadata))
                 /\ UNCHANGED race
  /\ tempDir' = Cleanup(tempDir)
  /\ pc' = "done"
  /\ UNCHANGED <<phase, first, world, entry, req, metaRes, capRes, gtPc, gtErrs, gtOut, sl,
                 resp, calls>>

(***************************************************************************)
(* The client of /transcribe/stream goes away: the generator is cancelled  *)
(* at the await it is suspended in.  CancelledError is not an Exception,   *)
(* so only the finally block runs; the threads started with to_thread keep *)
(* running.                                                                *)
(***************************************************************************)
AwaitPoints ==
  {"gather", "download_ytdlp", "download_pytubefix", "direct", "trim", "full_only",
   "race", "pending"}

\* The operations running in worker threads while the generator is suspended.
InFlight ==
  CASE pc = "gather" ->
         {c \in {"oembed"} : metaRes = Pending} \cup {c \in {"captions"} : capRes = Pending}
    [] pc = "download_ytdlp" -> {"ytdlp"}
    [] pc = "download_pytubefix" -> {"pytubefix"}
    [] pc = "direct" -> {"direct"}
    [] pc = "trim" -> {"trim"}
    [] pc = "full_only" -> {"transcribe"}
    [] pc \in {"race", "pending"} ->
         {c \in {"transcribe_clip"} : race.partial = Pending} \cup
         {c \in {"transcribe"} : race.full = Pending}
    [] OTHER -> {}

StreamAbandoned ==
  /\ UNCHANGED <<retryVars, downloadVars, captionVars>>
  /\ entry = "stream"
  /\ pc \in AwaitPoints
  /\ orphans' = InFlight
  /\ tempDir' = Cleanup(tempDir)
  /\ pc' = "abandoned"
  /\ UNCHANGED <<phase, first, world, entry, req, metaRes, capRes, gtPc, gtErrs, gtOut, sl,
                 race, events, resp, calls>>

\* a thread the generator left behind ends; nobody receives what it returns
OrphanEnds ==
  /\ UNCHANGED <<retryVars, downloadVars, captionVars>>
  /\ pc = "abandoned"
  /\ \E op \in orphans : orphans' = orphans \ {op}
  /\ UNCHANGED <<phase, first, world, entry, req, pc, metaRes, capRes, tempDir, gtPc, gtErrs,
                 gtOut, sl, race, events, resp, calls>>

(***************************************************************************)
(* Requests.                                                               *)
(***************************************************************************)
NoFirst ==
  [entry |-> "none", meta |-> "", inspected |-> {}, success |-> FALSE, method |-> "",
   text |-> "", errors |-> <<>>]

\* How a finished resolution ended: success and the method tag.
Succeeded ==
  CASE entry = "transcribe" -> resp.kind = "success"
    [] entry = "stream" -> events # <<>> /\ events[Len(events)].type = "complete"
    [] OTHER -> gtOut.kind = "return"

MethodTag ==
  CASE entry = "transcribe" -> resp.method
    [] entry = "stream" -> IF events # <<>> THEN events[Len(events)].method ELSE ""
    [] OTHER -> gtOut.method

\* The transcript text a finished resolution delivered.
TranscriptText ==
  CASE entry = "transcribe" -> resp.text
    [] entry = "stream" -> IF events # <<>> THEN events[Len(events)].text ELSE ""
    [] OTHER -> gtOut.text

\* The error messages a finished resolution delivered.
ErrorMessages ==
  CASE entry = "transcribe" -> resp.errors
    [] entry = "stream" -> IF events # <<>> THEN events[Len(events)].errors ELSE <<>>
    [] OTHER -> gtOut.parts

\* "ok", or the class of the oEmbed failure ("none" when oEmbed was not called)
MetaKind ==
  IF metaRes.ok THEN "ok" ELSE metaRes.cls

EngineInit ==
  /\ phase = "first"
  /\ first = NoFirst
  /\ world = [k \in WorldKeys |-> None_]
  /\ entry = "none"
  /\ req \in [valid : BOOLEAN, prefer : BOOLEAN]
  /\ pc = "idle"
  /\ metaRes = None_
  /\ capRes = None_
  /\ tempDir = "none"
  /\ gtPc = "off"
  /\ gtErrs = NoTierErrors
  /\ gtOut = NoGtOut
  /\ sl = NoStreamLocals
  /\ race = NoRace
  /\ events = <<>>
  /\ resp = NoResponse
  /\ calls = <<>>
  /\ orphans = {}

EngineIdle ==
  /\ EngineInit
  /\ req = [valid |-> TRUE, prefer |-> FALSE]

\* The first resolution is over; the same request is made once more.  The
\* collaborators answer as before (world), except oEmbed, which answers afresh.
NextRequest ==
  /\ UNCHANGED <<retryVars, downloadVars, captionVars, orphans>>
  /\ pc = "done"
  /\ phase = "first"
  /\ phase' = "second"
  /\ first' = [entry |-> entry, meta |-> MetaKind, inspected |-> race.inspected,
               success |-> Succeeded, method |-> MethodTag,
               text |-> TranscriptText, errors |-> ErrorMessages]
  /\ entry' = "none"
  /\ pc' = "idle"
  /\ metaRes' = None_
  /\ capRes' = None_
  /\ tempDir' = "none"
  /\ gtPc' = "off"
  /\ gtErrs' = NoTierErrors
  /\ gtOut' = NoGtOut
  /\ sl' = NoStreamLocals
  /\ race' = NoRace
  /\ events' = <<>>
  /\ resp' = NoResponse
  /\ calls' = <<>>
  /\ UNCHANGED <<world, req>>

(***************************************************************************)
(* Specifications.                                                         *)
(***************************************************************************)
Init ==
  /\ RetryIdle
  /\ DownloadIdle
  /\ CaptionsIdle
  /\ EngineInit

Next ==
  \/ CallGetTranscript
  \/ GtTier1
  \/ GtTier2
  \/ GtTier3
  \/ GtTier4
  \/ PostTranscribe
  \/ PostStream
  \/ OembedFinishes
  \/ CaptionsFinishes
  \/ TranscribeAfterGather
  \/ TranscribeAfterGetTranscript
  \/ StreamAfterGather
  \/ StreamYtdlpEnds
  \/ StreamPytubefixEnds
  \/ StreamDirectEnds
  \/ StreamTrimEnds
  \/ StreamFullOnlyEnds
  \/ PartialFinishes
  \/ FullFinishes
  \/ StreamInspectsDone
  \/ StreamPendingEnds
  \/ StreamAbandoned
  \/ OrphanEnds
  \/ NextRequest

\* The resolution engine.
Spec ==
  Init /\ [][Next]_vars

InitRetry ==
  /\ RetryInit
  /\ DownloadIdle
  /\ CaptionsIdle
  /\ EngineIdle

NextRetry ==
  \/ RetryCallReturns
  \/ RetryCallRaisesGiveUp
  \/ RetryCallRaisesSleep

\* One call of an operation decorated with retry_with_backoff.
SpecRetry ==
  InitRetry /\ [][NextRetry]_vars

InitContext ==
  /\ rCfg \in RetryConfigs
  /\ rPc = "running"
  /\ rAttempt = 0
  /\ rDelay = rCfg.params[1]
  /\ rCalls = 0
  /\ rSleeps = <<>>
  /\ rLast = "none"
  /\ rRaisedBy = 0
  /\ rRaised = "none"
  /\ ctx = NewContext(rCfg.params[1])
  /\ DownloadIdle
  /\ CaptionsIdle
  /\ EngineIdle

NextContext ==
  \/ BothOperationReturns
  \/ BothOperationRaisesLast
  \/ BothOperationRaises

\* One operation that fails only with retryable errors, under the decorator and
\* inside the RetryContext loop with the same parameters.
SpecContext ==
  InitContext /\ [][NextContext]_vars

InitDownload ==
  /\ RetryIdle
  /\ DownloadInit
  /\ CaptionsIdle
  /\ EngineIdle

NextDownload ==
  \/ DownloadFirstAttemptEnds
  \/ DownloadNoProxyRetryEnds
  \/ DownloadWebshareRetryEnds

\* One call of download_audio.
SpecDownload ==
  InitDownload /\ [][NextDownload]_vars

InitCaptions ==
  /\ RetryIdle
  /\ DownloadIdle
  /\ CaptionsInit
  /\ EngineIdle

NextCaptions ==
  \/ CaptionsWebshareStage
  \/ CaptionsDirectStage
  \/ CaptionsResidentialStage
  \/ CaptionsTorStage

\* One call of _fetch_youtube_captions.
SpecCaptions ==
  InitCaptions /\ [][NextCaptions]_vars

(***************************************************************************)
(* Properties.                                                             *)
(***************************************************************************)
\* The acquisition strategies, in ladder order, as they appear in calls.
TierCall ==
  <<"captions", "ytdlp", "pytubefix", "direct">>

TierMethod ==
  <<"youtube_captions", "ytdlp_assemblyai", "pytubefix_assemblyai", "assemblyai_direct">>

IsStrategyCall(c) ==
  c \in {"captions", "ytdlp", "pytubefix", "direct"}

StrategyCalls ==
  SelectSeq(calls, IsStrategyCall)

Invoked(c) ==
  \E i \in DOMAIN calls : calls[i] = c

TierOfMethod(method) ==
  CHOOSE t \in 1..4 : TierMethod[t] = method

InGetTranscript ==
  entry \in {"get_transcript", "transcribe"}

\* C1: in get_transcript, once a tier has failed with VideoNotFoundError or
\* VideoUnavailableError, no tier later in the ladder is invoked.
C1_ShortCircuitAtEveryTier ==
  InGetTranscript =>
    \A t \in 1..3 :
      IsTargetMissing(gtErrs[t]) => \A u \in (t + 1)..4 : ~Invoked(TierCall[u])

\* The events of the stream without the metadata event, by type.
RECURSIVE EventTypes(_)
EventTypes(es) ==
  IF es = <<>> THEN <<>>
  ELSE (IF es[1].type = "metadata" THEN <<>> ELSE <<es[1].type>>) \o EventTypes(Tail(es))

RaceRan ==
  entry = "stream" /\ race.inspected # {}

\* C2: after a partial/full race, a 'complete' event is emitted only if the full
\* operation returned, and it carries the full operation's transcript.
C2_CompleteCarriesFullResult ==
  RaceRan =>
    \A i \in DOMAIN events :
      events[i].type = "complete" => race.full.ok /\ events[i].text = race.full.text

\* The tier get_transcript starts with, as an index into the ladder.
FirstTierIndex ==
  IF FirstTier(req.prefer) = "tier1" THEN 1 ELSE 2

\* The ladder's calls from tier a to tier b.
Ladder(a, b) ==
  SubSeq(TierCall, a, b)

\* C3 as stated: get_transcript returns the method of the first tier that
\* succeeds, after every tier from captions up to it was attempted and failed.
C3_EveryEarlierTierAttempted ==
  (entry = "get_transcript" /\ gtOut.kind = "return") =>
    LET m == TierOfMethod(gtOut.method) IN
      /\ StrategyCalls = Ladder(1, m)
      /\ \A t \in 1..(m - 1) : gtErrs[t] # None_

\* C3: get_transcript attempts the tiers in ladder order, starting with captions
\* unless prefer_diarization is set and with yt-dlp if it is; what it returns
\* carries the method of the first tier that succeeded, every tier between the
\* starting tier and that one was attempted and failed, no later tier was
\* invoked, and the all-tiers-failed error is raised only after tier 4 failed.
C3_LadderOrder ==
  entry = "get_transcript" =>
    /\ \E k \in (FirstTierIndex - 1)..4 : StrategyCalls = Ladder(FirstTierIndex, k)
    /\ gtOut.kind = "return" =>
         LET m == TierOfMethod(gtOut.method) IN
           /\ StrategyCalls = Ladder(FirstTierIndex, m)
           /\ \A t \in FirstTierIndex..(m - 1) : gtErrs[t] # None_ /\ ~gtErrs[t].ok
           /\ \A t \in m..4 : gtErrs[t] = None_
           /\ gtOut.cls # "NoCaptionsAvailableError"
    /\ gtOut.cls = "NoCaptionsAvailableError" =>
         \A t \in FirstTierIndex..4 : gtErrs[t] # None_

\* C3 witness: captions and yt-dlp failed, pytubefix succeeded.
C3_Witness ==
  /\ entry = "get_transcript"
  /\ ~req.prefer
  /\ gtOut.kind = "return"
  /\ gtOut.method = "pytubefix_assemblyai"
  /\ StrategyCalls = <<"captions", "ytdlp", "pytubefix">>
  /\ gtErrs[1] # None_
  /\ gtErrs[2] # None_

PartialAlone ==
  /\ "partial" \in race.inspected
  /\ race.partial.ok
  /\ ~("full" \in race.inspected /\ race.full.ok)

EveryStrategyFailed ==
  /\ entry = "transcribe"
  /\ pc = "done"
  /\ Finished(capRes) /\ ~capRes.ok
  /\ \A t \in 2..4 : gtErrs[t] # None_

\* C5: when captions, yt-dlp, pytubefix and the direct tier all fail in
\* POST /transcribe, the failure response holds one entry per strategy, each
\* with that strategy's error message.
C5_FailureListsEveryStrategy ==
  EveryStrategyFailed =>
    /\ resp.kind = "failure"
    /\ resp.errors = << <<"yt-dlp", gtErrs[2].msg>>,
                        <<"pytubefix", gtErrs[3].msg>>,
                        <<"Direct", gtErrs[4].msg>>,
                        <<"Fast-path Captions", capRes.msg>> >>

\* C5 witness: four strategies failed, among them a not-found of yt-dlp.
C5_Witness ==
  /\ EveryStrategyFailed
  /\ Len(resp.errors) = 4
  /\ gtErrs[2].cls = "VideoNotFoundError"
  /\ gtErrs[3].cls = "DownloadError"

\* C6: retry_with_backoff calls the operation at most max_retries + 1 times and
\* sleeps at most max_retries times, and the call that returns is the last one.
C6_RetryBudget ==
  rPc # "idle" =>
    /\ rCalls <= rCfg.max_retries + 1
    /\ Len(rSleeps) <= rCfg.max_retries
    /\ rPc = "returned" => rCalls = Len(rSleeps) + 1

\* C6 witness: the whole budget was used and the last call returned.
C6_Witness ==
  /\ rPc = "returned"
  /\ rCfg.max_retries >= 2
  /\ rCalls = rCfg.max_retries + 1
  /\ Len(rSleeps) = rCfg.max_retries

\* C7: retry_with_backoff does not go on after a failure that
\* classify_youtube_error puts in the not-found or unavailable class: the
\* wrapper is never back in its loop with such an error as the last one.
C7_TargetMissingNeverRetried ==
  (rPc = "running" /\ rLast # "none") =>
    classify_youtube_error(MessageText[rLast])
      \notin {"VideoNotFoundError", "VideoUnavailableError"}

\* The metadata a finished endpoint resolution delivered.
ResultMetadata ==
  CASE entry = "transcribe" -> resp.metadata
    [] entry = "stream" -> IF events # <<>> THEN events[Len(events)].metadata ELSE NoMetadata
    [] OTHER -> NoMetadata

EndpointDone ==
  entry \in {"transcribe", "stream"} /\ pc = "done"

\* C8 as stated: captions that succeed make the resolution succeed with method
\* youtube_captions, whatever the metadata lookup did.
C8_CaptionsAlwaysWin ==
  (EndpointDone /\ capRes.ok) =>
    Succeeded /\ MethodTag = "youtube_captions"

\* C8: captions that succeed make the resolution succeed with method
\* youtube_captions and the oEmbed or synthesized metadata, unless the metadata
\* lookup failed as not-found or unavailable: then the resolution fails with
\* the metadata error.
C8_CaptionsWinUnlessTargetMissing ==
  (EndpointDone /\ capRes.ok) =>
    IF IsTargetMissing(metaRes)
      THEN ~Succeeded /\ ErrorMessages = << <<"", metaRes.msg>> >>
      ELSE /\ Succeeded
           /\ MethodTag = "youtube_captions"
           /\ TranscriptText = capRes.text
           /\ ResultMetadata = MetadataOrSynthesized(metaRes)
           /\ tempDir = "none"

\* C8 witness: captions succeeded, oEmbed failed with a server error.
C8_Witness ==
  /\ EndpointDone
  /\ capRes.ok
  /\ metaRes.msg = "oembed_http_error"
  /\ Succeeded
  /\ MethodTag = "youtube_captions"
  /\ ResultMetadata.title = "Unknown"

SlowPathCalls ==
  {"ytdlp", "pytubefix", "direct", "transcribe", "trim", "transcribe_clip"}

\* C9: when the metadata lookup fails as not-found or unavailable, no
\* temporary directory is made, no download, trim or transcription is started,
\* and the resolution ends in a failure that carries the metadata error.
C9_TargetMissingMetadataAborts ==
  (entry \in {"transcribe", "stream"} /\ IsTargetMissing(metaRes)) =>
    /\ tempDir = "none"
    /\ \A c \in SlowPathCalls : ~Invoked(c)
    /\ pc \in {"gather", "done", "abandoned"}
    /\ pc = "done" => ~Succeeded /\ ErrorMessages = << <<"", metaRes.msg>> >>

\* C9 witness: oEmbed answered 404 while captions failed; the stream ended in error.
C9_Witness ==
  /\ entry = "stream"
  /\ pc = "done"
  /\ metaRes.cls = "VideoNotFoundError"
  /\ Finished(capRes) /\ ~capRes.ok
  /\ EventTypes(events) = <<"error">>
  /\ events[1].phase = "metadata"

\* The same request was resolved twice by the same endpoint with the same race
\* schedule, once with oEmbed metadata and once with an oEmbed failure that is
\* neither not-found nor unavailable.
SameRunMetadataFailed ==
  /\ phase = "second"
  /\ EndpointDone
  /\ entry = first.entry
  /\ race.inspected = first.inspected
  /\ {first.meta, MetaKind} = {"ok", "YouTubeError"}

\* C10: an oEmbed failure that is neither not-found nor unavailable leaves the
\* outcome as it is with oEmbed metadata: same success, method, transcript and
\* error messages; a success then carries the synthesized metadata.
C10_MetadataFailureKeepsOutcome ==
  SameRunMetadataFailed =>
    /\ Succeeded = first.success
    /\ MethodTag = first.method
    /\ TranscriptText = first.text
    /\ ErrorMessages = first.errors
    /\ (Succeeded /\ ~metaRes.ok) =>
         ResultMetadata = [title |-> "Unknown", thumbnail |-> "maxresdefault"]

\* C10 witness: the second run lost oEmbed and still succeeded through yt-dlp.
C10_Witness ==
  /\ SameRunMetadataFailed
  /\ first.meta = "ok"
  /\ first.success
  /\ first.method = "ytdlp_assemblyai"
  /\ Succeeded
  /\ MethodTag = "ytdlp_assemblyai"
  /\ ResultMetadata.title = "Unknown"

\* The class classify_youtube_error gives the error the caption strategy raised.
CaptionsClass(captions_result) ==
  classify_youtube_error(CaptionErrorText[captions_result.msg])

\* The metadata lookup and the caption strategy both failed as not-found or
\* unavailable, one as the one and the other as the other.
TargetMissingBothDisagree ==
  /\ EndpointDone
  /\ IsTargetMissing(metaRes)
  /\ Finished(capRes) /\ ~capRes.ok
  /\ CaptionsClass(capRes) \in {"VideoNotFoundError", "VideoUnavailableError"}
  /\ CaptionsClass(capRes) # metaRes.cls

\* C11: when the metadata lookup and the caption strategy both fail as
\* not-found or unavailable and disagree on which, the error the caller gets is
\* the caption strategy's, not the metadata lookup's.
C11_StrategyClassificationWins ==
  TargetMissingBothDisagree =>
    ErrorMessages = << <<"", capRes.msg>> >>

\* C12: when a resolution of POST /transcribe or /transcribe/stream has ended,
\* the temporary directory it made, if it made one, has been removed.
C12_TempDirRemoved ==
  EndpointDone => tempDir \in {"none", "removed"}

\* C12 witness: a stream that made its directory, failed in transcription and removed it.
C12_Witness ==
  /\ entry = "stream"
  /\ pc = "done"
  /\ tempDir = "removed"
  /\ events[Len(events)].type = "error"
  /\ events[Len(events)].phase = "transcription"

\* The events of the stream, by type.
AllEventTypes ==
  [i \in DOMAIN events |-> events[i].type]

TerminalTypes ==
  {"complete", "error"}

\* metadata?, partial?
IntermediateTypes ==
  { <<>>, <<"metadata">>, <<"partial">>, <<"metadata", "partial">> }

\* C13: a stream that has ended emitted exactly one terminal event, as its last
\* event, after at most one metadata event and at most one partial event in
\* that order; a stream that has not ended has emitted no terminal event.
C13_OneTerminalEventLast ==
  entry = "stream" =>
    IF pc = "done"
      THEN \E head \in IntermediateTypes, t \in TerminalTypes :
             AllEventTypes = head \o <<t>>
      ELSE AllEventTypes \in IntermediateTypes

\* C13 witness: metadata, partial, complete.
C13_Witness ==
  /\ entry = "stream"
  /\ pc = "done"
  /\ AllEventTypes = <<"metadata", "partial", "complete">>

PartialEmitted ==
  \E i \in DOMAIN events : events[i].type = "partial"

\* C14: when the full transcription fails after a partial event went out, the
\* stream ends with an error event of phase 'transcription' and holds no
\* complete event.
C14_FullFailureAfterPartial ==
  (RaceRan /\ pc = "done" /\ PartialEmitted /\ ~race.full.ok) =>
    /\ events[Len(events)].type = "error"
    /\ events[Len(events)].phase = "transcription"
    /\ \A i \in DOMAIN events : events[i].type # "complete"

\* C14 witness: the partial went out while the full was running; the full then raised.
C14_Witness ==
  /\ RaceRan
  /\ pc = "done"
  /\ race.inspected = {"partial"}
  /\ PartialEmitted
  /\ ~race.full.ok
  /\ events[Len(events)].errors = << <<"", race.full.msg>> >>

IsTranscribeCall(c) ==
  c = "transcribe"

\* The stream's download has returned an audio file.
Downloaded ==
  entry = "stream" /\ (Invoked("transcribe") \/ Invoked("trim"))

TrimFailed ==
  /\ entry = "stream"
  /\ Invoked("trim")
  /\ calls[Len(calls)] # "trim"
  /\ ~world["trim"].ok

\* C16: when trim_audio fails the stream runs the full transcription only:
\* no clip transcription, one transcription, no partial event, no event that
\* carries the trim error, and the terminal event is that of the transcription.
C16_TrimFailureFullOnly ==
  TrimFailed =>
    /\ ~Invoked("transcribe_clip")
    /\ Len(SelectSeq(calls, IsTranscribeCall)) = 1
    /\ ~PartialEmitted
    /\ \A i \in DOMAIN events :
         \A j \in DOMAIN events[i].errors : events[i].errors[j][2] # world["trim"].msg
    /\ pc = "done" =>
         events[Len(events)].type =
           (IF world[TrKey(sl.download_method)].ok THEN "complete" ELSE "error")

\* C16 witness: the trim failed and the full transcript completed the stream.
C16_Witness ==
  /\ TrimFailed
  /\ pc = "done"
  /\ sl.duration > PARTIAL_THRESHOLD_SECS
  /\ events[Len(events)].type = "complete"
  /\ events[Len(events)].text = "full_text"

\* The messages an error list holds.
MessagesOf(errors) ==
  { errors[i][2] : i \in DOMAIN errors }

\* Captions, both downloaders and the direct tier were tried by the stream and failed.
StreamEveryStrategyFailed ==
  /\ entry = "stream"
  /\ pc = "done"
  /\ Invoked("direct")
  /\ ~world["direct"].ok

\* C17: when captions, yt-dlp, pytubefix and the direct transcription all fail
\* in the stream, the terminal error event holds the failure message of each.
C17_StreamErrorListsEveryStrategy ==
  StreamEveryStrategyFailed =>
    /\ events[Len(events)].type = "error"
    /\ { capRes.msg, world["ytdlp"].msg, world["pytubefix"].msg, world["direct"].msg }
         \subseteq MessagesOf(events[Len(events)].errors)

MethodTags ==
  { TierMethod[t] : t \in 1..4 }

\* C18: POST /transcribe ends with a response that is a success with data and a
\* method tag and no error, or a failure with an error and no data.
C18_AlwaysStructuredResponse ==
  (entry = "transcribe" /\ pc = "done") =>
    \/ /\ resp.kind = "success"
       /\ resp.method \in MethodTags
       /\ resp.method = (IF capRes.ok THEN "youtube_captions" ELSE gtOut.method)
       /\ resp.text # ""
       /\ resp.metadata # NoMetadata
       /\ resp.errors = <<>>
    \/ /\ resp.kind = "failure"
       /\ resp.errors # <<>>
       /\ resp.method = ""
       /\ resp.text = ""
       /\ resp.metadata = NoMetadata

\* C18 witness: an exception outside the ladder became a failure response.
C18_Witness ==
  /\ entry = "transcribe"
  /\ pc = "done"
  /\ resp.kind = "failure"
  /\ resp.errors = << <<"Unexpected error", "mkdtemp_failed">> >>

\* C19: an error message that classify_youtube_error puts in the rate-limit
\* class is retryable for is_retryable_error, and one it puts in the not-found
\* class is not.
C19_ClassificationAgreesWithRetryability ==
  rLast # "none" =>
    LET c == classify_youtube_error(MessageText[rLast]) IN
      /\ c = "YouTubeRateLimitError" => is_retryable_error(MessageText[rLast])
      /\ c = "VideoNotFoundError" => ~is_retryable_error(MessageText[rLast])

\* The kinds of the classification table, by exception class.
KindOfClass ==
  [ YouTubeBlockedError |-> "Blocked", YouTubeRateLimitError |-> "RateLimited",
    VideoUnavailableError |-> "Unavailable",
    YouTubeCookiesRequiredError |-> "CredentialsRequired",
    VideoNotFoundError |-> "NotFound", DownloadError |-> "Unknown" ]

StatedBlockedKeywords ==
  { <<"s","i","g","n"," ","i","n">>,
    <<"b","o","t">> }

StatedTransientKeywords ==
  { <<"t","i","m","e","o","u","t">>,
    <<"c","o","n","n","e","c","t","i","o","n">>,
    <<"n","e","t","w","o","r","k">>,
    <<"5","0","2">>,
    <<"5","0","3">>,
    <<"5","0","4">> }

\* The table as C20 states it, rows in order.
StatedKind(error_msg) ==
  LET error_lower == Lower(error_msg) IN
  IF ContainsAny(error_lower, StatedBlockedKeywords) THEN "Blocked"
  ELSE IF ContainsAny(error_lower, RateLimitKeywords) THEN "RateLimited"
  ELSE IF ContainsAny(error_lower, UnavailableKeywords) THEN "Unavailable"
  ELSE IF ContainsAny(error_lower, CookiesKeywords) THEN "CredentialsRequired"
  ELSE IF ContainsAny(error_lower, NotFoundKeywords) THEN "NotFound"
  ELSE IF ContainsAny(error_lower, StatedTransientKeywords) THEN "Transient"
  ELSE "Unknown"

\* download_audio has raised the class classify_youtube_error chose for error_msg.
RaisedClassified ==
  /\ dPc = "raised"
  /\ dMsg # "none"
  /\ dOut.msg = dMsg

\* C20: the class download_audio raises for a yt-dlp error message is the kind
\* the stated keyword table gives that message: 'sign in'/'bot' Blocked, then
\* '429'/'rate limit'/'too many' RateLimited, then 'private' Unavailable, then
\* 'age'/'login'/'cookies' CredentialsRequired, then 'not found'/'404'/
\* 'unavailable' NotFound, then 'timeout'/'connection'/'network'/'502'/'503'/
\* '504' Transient, else Unknown.
C20_ClassifyFollowsStatedTable ==
  RaisedClassified =>
    KindOfClass[dOut.cls] = StatedKind(MessageText[dMsg])

RECURSIVE Pow(_, _)
Pow(b, n) ==
  IF n = 0 THEN 1 ELSE b * Pow(b, n - 1)

\* C21: the unjittered delay before the k-th retry is
\* min(initial_delay * backoff_factor^(k-1), max_delay), which is 2, 4, 8 seconds
\* for max_retries=3, initial_delay=2, backoff_factor=2; with jitter every sleep
\* is that value scaled by a factor in [0.5, 1.5], without jitter it is that
\* value, and no sleep exceeds 1.5 * max_delay.  (Sleeps are in tenths.)
C21_BackoffDelays ==
  /\ \A k \in 1..Len(rSleeps) :
       /\ rSleeps[k].base =
            Min(rCfg.params[1] * Pow(rCfg.params[3], k - 1), rCfg.params[2])
       /\ 5 * rSleeps[k].base <= rSleeps[k].tenths
       /\ rSleeps[k].tenths <= 15 * rSleeps[k].base
       /\ (~rCfg.jitter) => rSleeps[k].tenths = 10 * rSleeps[k].base
       /\ rSleeps[k].tenths <= 15 * rCfg.params[2]
  /\ (rCfg.params = <<2, 30, 2>> /\ rCfg.max_retries = 3 /\ Len(rSleeps) = 3) =>
       <<rSleeps[1].base, rSleeps[2].base, rSleeps[3].base>> = <<2, 4, 8>>

\* C21 witness: three jittered sleeps under the default parameters, the third
\* one scaled up, and the fourth invocation made.
C21_Witness ==
  /\ rCfg = [max_retries |-> 3, params |-> <<2, 30, 2>>, jitter |-> TRUE]
  /\ Len(rSleeps) = 3
  /\ rSleeps[1].tenths = 10
  /\ rSleeps[3].tenths = 112
  /\ rCalls = 4

\* C22: when retry_with_backoff gives up, the exception that leaves it is the
\* one the last invocation of the operation raised: the same invocation's, with
\* the same message.
C22_LastErrorUnchanged ==
  rPc = "raised" =>
    /\ rRaisedBy = rCalls
    /\ rRaised = rLast
    /\ rRaised \in MessageIds

\* C22 witness: retries were exhausted, and the third invocation's error left
\* the wrapper.
C22_Witness ==
  /\ rPc = "raised"
  /\ rCfg.max_retries = 2
  /\ Len(rSleeps) = 2
  /\ rCalls = 3
  /\ rRaisedBy = 3
  /\ rRaised = "conn_reset"

\* The classified kind of a tier's error: that of its exception class where the
\* class is one of the classification table, else that of its message.
ErrorKind(e) ==
  IF e.cls \in DOMAIN KindOfClass THEN KindOfClass[e.cls]
  ELSE KindOfClass[classify_youtube_error(TierErrorText[e.msg])]

\* The kind a recommendation speaks about.
RecommendationKind(rec) ==
  CASE rec \in { "YouTube is blocking requests from this IP",
                 "YouTube is blocking yt-dlp requests",
                 "YouTube is blocking pytubefix requests" } -> "Blocked"
    [] rec = "Update cookies.txt with fresh browser cookies" -> "CredentialsRequired"
    [] rec = "Rate limited - try again later" -> "RateLimited"
    [] OTHER -> "none"

FailedTiers ==
  { t \in 1..4 : gtErrs[t] # None_ }

AllTiersFailedRaised ==
  /\ gtOut.kind = "raise"
  /\ gtOut.cls = "NoCaptionsAvailableError"

\* C23: in the all-tiers-failed error a recommendation about blocking, about
\* credentials or about rate limiting appears only if the error of some failed
\* tier has the kind Blocked, CredentialsRequired or RateLimited respectively,
\* and when the error of every failed tier has the kind Unknown there is no
\* recommendation at all.
C23_RecommendationsFollowKinds ==
  AllTiersFailedRaised =>
    /\ \A i \in DOMAIN gtOut.recs :
         RecommendationKind(gtOut.recs[i]) # "none" =>
           \E t \in FailedTiers : ErrorKind(gtErrs[t]) = RecommendationKind(gtOut.recs[i])
    /\ (\A t \in FailedTiers : ErrorKind(gtErrs[t]) = "Unknown") => gtOut.recs = <<>>

\* Position of the first occurrence of rec in the list the tiers were scanned into.
FirstOccurrence(rec, recommendations) ==
  CHOOSE i \in DOMAIN recommendations :
    /\ recommendations[i] = rec
    /\ \A j \in 1..(i - 1) : recommendations[j] # rec

\* C24: the recommendations of the all-tiers-failed error are those the failed
\* tiers gave when scanned in tier order, each distinct one exactly once and
\* in the order of their first occurrences.
C24_RecommendationsUniqueInOrder ==
  AllTiersFailedRaised =>
    LET scanned == Recommendations(gtErrs, 1) IN
      /\ { gtOut.recs[i] : i \in DOMAIN gtOut.recs } = { scanned[i] : i \in DOMAIN scanned }
      /\ \A i, j \in DOMAIN gtOut.recs :
           i < j => /\ gtOut.recs[i] # gtOut.recs[j]
                    /\ FirstOccurrence(gtOut.recs[i], scanned)
                         < FirstOccurrence(gtOut.recs[j], scanned)

\* C24 witness: the captions, yt-dlp and pytubefix tiers each gave a
\* recommendation, and the error lists the three in tier order.
C24_Witness ==
  /\ AllTiersFailedRaised
  /\ gtErrs[1].msg = "captions_blocked"
  /\ gtErrs[2].msg = "ytdlp_bot"
  /\ gtErrs[3].msg = "pytubefix_bot"
  /\ gtOut.recs = << "YouTube is blocking requests from this IP",
                     "YouTube is blocking yt-dlp requests",
                     "YouTube is blocking pytubefix requests" >>

\* The options whose stage guard holds, in stage order.
ConfiguredOptions ==
  SelectSeq(CaptionStages, LAMBDA o : Configured(o, cSettings))

NoRepeat(attempts) ==
  \A i, j \in DOMAIN attempts : i # j => attempts[i] # attempts[j]

\* C26: within one call no egress option is used twice: every fetch of
\* _fetch_youtube_captions goes through another option than the earlier ones,
\* and no attempt of download_audio uses the proxy of an earlier attempt.
C26_NoEgressOptionReused ==
  /\ NoRepeat(cAttempts)
  /\ NoRepeat(dAttempts)

\* The caption strategy was invoked and succeeded, and the metadata lookup (if
\* the entry point makes one) did not report not-found or unavailable.
CaptionFastPathSucceeded ==
  /\ pc = "done"
  /\ Invoked("captions")
  /\ CASE entry \in {"transcribe", "stream"} -> capRes.ok /\ ~IsTargetMissing(metaRes)
       [] entry = "get_transcript" -> world["cap"].ok
       [] OTHER -> FALSE

\* C27: when the caption strategy succeeds and the metadata lookup did not
\* report not-found or unavailable, the resolution succeeds with the method
\* youtube_captions, the caption strategy is the only acquisition strategy
\* invoked, nothing is trimmed or transcribed, and no temporary directory is made.
C27_FastPathOnly ==
  CaptionFastPathSucceeded =>
    /\ Succeeded
    /\ MethodTag = "youtube_captions"
    /\ StrategyCalls = <<"captions">>
    /\ \A i \in DOMAIN calls : calls[i] \in {"oembed", "captions"}
    /\ tempDir = "none"

\* C27 witness: a stream whose captions were fetched while the oEmbed lookup
\* failed ends in the complete event of the caption strategy.
C27_Witness ==
  /\ CaptionFastPathSucceeded
  /\ entry = "stream"
  /\ phase = "first"
  /\ metaRes.msg = "oembed_failed"
  /\ calls = <<"oembed", "captions">>
  /\ EventTypes(events) = <<"complete">>
  /\ events[Len(events)].method = "youtube_captions"

PartLabels ==
  { gtOut.parts[i][1] : i \in DOMAIN gtOut.parts }

\* C29: in get_transcript with prefer_diarization the caption tier is never
\* invoked, the first strategy invoked is yt-dlp, the method of the result is
\* not youtube_captions and the all-tiers-failed error has no 'Captions'
\* entry; without prefer_diarization the first strategy invoked is the
\* caption tier.
C29_DiarizationSkipsCaptions ==
  (entry = "get_transcript" /\ req.valid) =>
    /\ pc = "done" => StrategyCalls # <<>>
    /\ req.prefer =>
         /\ ~Invoked("captions")
         /\ gtErrs[1] = None_
         /\ StrategyCalls # <<>> => StrategyCalls[1] = "ytdlp"
         /\ gtOut.method # "youtube_captions"
         /\ "Captions" \notin PartLabels
    /\ ~req.prefer =>
         /\ StrategyCalls # <<>> => StrategyCalls[1] = "captions"
         /\ AllTiersFailedRaised => "Captions" \in PartLabels

\* C29 witness: with prefer_diarization the three remaining tiers failed and
\* the error names them only.
C29_Witness ==
  /\ entry = "get_transcript"
  /\ req.prefer
  /\ AllTiersFailedRaised
  /\ StrategyCalls = <<"ytdlp", "pytubefix", "direct">>
  /\ PartLabels = {"yt-dlp", "pytubefix", "Direct"}

\* get_transcript is over: it has returned or raised.
GetTranscriptEnded ==
  /\ InGetTranscript
  /\ gtOut.kind # "none"

\* C30: when a download tier of get_transcript has reported
\* VideoNotFoundError or VideoUnavailableError, get_transcript ends by raising
\* an exception of that class to its caller, not NoCaptionsAvailableError and
\* not a result.
C30_TargetMissingReachesCaller ==
  GetTranscriptEnded =>
    \A t \in {2, 3} :
      IsTargetMissing(gtErrs[t]) =>
        /\ gtOut.kind = "raise"
        /\ gtOut.cls \in { gtErrs[u].cls : u \in { v \in {2, 3} : IsTargetMissing(gtErrs[v]) } }

\* The same request was resolved twice through the same entry point, and the
\* metadata lookup and every strategy answered the second time as the first.
SameInputsResolvedTwice ==
  /\ phase = "second"
  /\ pc = "done"
  /\ entry = first.entry
  /\ MetaKind = first.meta

\* C31: two resolutions of the same request with the same outcome of the
\* metadata lookup and of every strategy end alike: both succeed with the same
\* method tag, or both fail, whatever the order in which the concurrent
\* operations completed.
C31_SameInputsSameMethod ==
  SameInputsResolvedTwice =>
    /\ Succeeded = first.success
    /\ MethodTag = first.method

\* The downloader of the stream's slow path was invoked and has raised
\* VideoNotFoundError or VideoUnavailableError.
DownloaderReportedMissing(dl) ==
  /\ entry = "stream"
  /\ Invoked(dl)
  /\ pc \notin {"download_" \o dl, "abandoned"}
  /\ world[dl].cls \in {"VideoNotFoundError", "VideoUnavailableError"}

\* C32: in /transcribe/stream, once yt-dlp, or pytubefix after yt-dlp, has
\* failed with VideoNotFoundError or VideoUnavailableError, the stream has ended
\* with an 'error' event of phase 'download' carrying that error, and that
\* download is the last call made: no later downloader, no direct-URL
\* transcription, no trim and no transcription.
C32_StreamStopsOnMissingTarget ==
  \A dl \in {"ytdlp", "pytubefix"} :
    DownloaderReportedMissing(dl) =>
      /\ pc = "done"
      /\ calls[Len(calls)] = dl
      /\ events[Len(events)].type = "error"
      /\ events[Len(events)].phase = "download"
      /\ events[Len(events)].errors = << <<"", world[dl].msg>> >>
      /\ \A i \in DOMAIN calls : calls[i] \notin {"direct", "trim", "transcribe", "transcribe_clip"}

\* C32 witness: yt-dlp failed otherwise, pytubefix reported the video as
\* private, and the stream ended there.
C32_Witness ==
  /\ DownloaderReportedMissing("pytubefix")
  /\ world["ytdlp"].cls = "DownloadError"
  /\ world["pytubefix"].cls = "VideoUnavailableError"
  /\ calls = <<"oembed", "captions", "ytdlp", "pytubefix">>
  /\ events[Len(events)].phase = "download"

\* The same request was resolved once by POST /transcribe and once by
\* POST /transcribe/stream, with the same outcome of the metadata lookup and of
\* every strategy call.
BothEndpointsResolved ==
  /\ phase = "second"
  /\ pc = "done"
  /\ {entry, first.entry} = {"transcribe", "stream"}
  /\ MetaKind = first.meta

\* C33: for the same request and the same outcomes of every external call,
\* /transcribe/stream and /transcribe end in the same terminal outcome: both
\* succeed with the same method tag, or both fail.
C33_StreamRefinesTranscribe ==
  BothEndpointsResolved =>
    /\ Succeeded = first.success
    /\ MethodTag = first.method

\* C34: in the partial/full race a 'partial' event is emitted only if at the
\* first inspection the partial operation had returned its result and the full
\* operation had not completed, neither returned nor raised; when both had
\* completed by then, no 'partial' event is emitted.
C34_PartialOnlyWhileFullRuns ==
  (RaceRan /\ PartialEmitted) =>
    /\ race.inspected = {"partial"}
    /\ race.partial.ok

\* C35: the metadata lookup and the caption strategy are started together, and
\* while either is still running the engine has returned no response, emitted
\* no event, made no temporary directory and started no slow-path strategy;
\* once the engine is past the fan-out both have returned or raised, so
\* neither was cancelled by the outcome of the other.
C35_GatherAwaitsBoth ==
  /\ pc = "gather" =>
       /\ calls = <<"oembed", "captions">>
       /\ resp = NoResponse
       /\ events = <<>>
       /\ tempDir = "none"
       /\ gtPc = "off"
  /\ (entry \in {"transcribe", "stream"} /\ pc \notin {"idle", "gather", "abandoned"}
        /\ calls # <<>>) =>
       /\ Finished(metaRes)
       /\ Finished(capRes)

\* the metadata lookup failed and the caption strategy still delivered
C35_Witness ==
  /\ entry = "stream"
  /\ pc = "done"
  /\ ~metaRes.ok
  /\ capRes.ok
  /\ Succeeded
  /\ MethodTag = "youtube_captions"

TerminalEmitted ==
  \E i \in DOMAIN events : events[i].type \in {"complete", "error"}

\* C36: in the partial/full race neither transcription is cancelled when the
\* other completes: no terminal event is emitted and the temporary directory
\* stays while either of them is still running, and when the request has
\* resolved both have returned or raised.
C36_RaceAwaitsBoth ==
  /\ (entry = "stream" /\ pc \in {"race", "pending"}) =>
       /\ ~TerminalEmitted
       /\ tempDir = "exists"
  /\ (entry = "stream" /\ (TerminalEmitted \/ pc = "done") /\ race # NoRace) =>
       /\ Finished(race.partial)
       /\ Finished(race.full)

\* the clip was inspected alone and yielded, then the full transcription failed
C36_Witness ==
  /\ entry = "stream"
  /\ pc = "done"
  /\ race.inspected = {"partial"}
  /\ race.order = <<"partial", "full">>
  /\ race.partial.ok
  /\ ~race.full.ok
  /\ race.full.cls # "pending"
  /\ EventTypes(events) = <<"partial", "error">>

\* The operations that read or write the temporary directory.
TempDirUsers ==
  {"ytdlp", "pytubefix", "trim", "transcribe", "transcribe_clip"}

\* C37: the temporary directory of a resolution is never removed while a
\* download, trim or transcription of that resolution is still running, also
\* when the caller has gone away in the middle of the resolution.
C37_TempDirOutlivesWorkers ==
  /\ tempDir = "removed" => (InFlight \cup orphans) \cap TempDirUsers = {}
  /\ pc = "abandoned" => ~TerminalEmitted

LadderRank(c) ==
  CHOOSE t \in 1..4 : TierCall[t] = c

\* C38: within one resolution of /transcribe or /transcribe/stream the caption
\* lookup, the yt-dlp download, the pytubefix download and the direct-URL
\* transcription are each invoked at most once and in ladder order; the caption
\* strategy that failed in the fast path is not tried again in the slow path.
C38_EachStrategyOnceDownTheLadder ==
  entry \in {"transcribe", "stream"} =>
    \A i, j \in DOMAIN StrategyCalls :
      i < j => LadderRank(StrategyCalls[i]) < LadderRank(StrategyCalls[j])

\* POST /transcribe went down the whole ladder after the fast path failed
C38_Witness ==
  /\ entry = "transcribe"
  /\ pc = "done"
  /\ ~capRes.ok
  /\ StrategyCalls = <<"captions", "ytdlp", "pytubefix", "direct">>
  /\ resp.kind = "failure"

\* download_audio raised because the extractor returned no info.
RaisedForNoInfo ==
  /\ dPc = "raised"
  /\ dOut.msg = "no_info"

\* C39: whenever the extractor returns no info for the video, on the first
\* attempt or on a retry without proxy or through Webshare, the error that
\* leaves download_audio is VideoNotFoundError.
C39_NoInfoStaysNotFound ==
  RaisedForNoInfo => dOut.cls = "VideoNotFoundError"

\* C40: driven by the documented loop and failing only with retryable errors,
\* RetryContext behaves like retry_with_backoff with the same parameters: it
\* stops after the same number of attempts, at most max_retries + 1; it sleeps
\* the same sequence, whose k-th unjittered value is
\* min(initial_delay * backoff_factor^(k-1), max_delay); it does not sleep after
\* the final failed attempt; get_last_error() is the last recorded exception.
C40_ContextMatchesDecorator ==
  ctx.pc # "idle" =>
    /\ (ctx.pc = "running") <=> (rPc = "running")
    /\ (ctx.pc = "broke") <=> (rPc = "returned")
    /\ (ctx.pc = "exhausted") <=> (rPc = "raised")
    /\ ctx.calls = rCalls
    /\ ctx.calls <= rCfg.max_retries + 1
    /\ ctx.sleeps = rSleeps
    /\ \A k \in 1..Len(ctx.sleeps) :
         ctx.sleeps[k].base =
           Min(rCfg.params[1] * Pow(rCfg.params[3], k - 1), rCfg.params[2])
    /\ ctx.pc = "exhausted" =>
         /\ ctx.calls = rCfg.max_retries + 1
         /\ Len(ctx.sleeps) = rCfg.max_retries
         /\ get_last_error(ctx) = rRaised
    /\ get_last_error(ctx) = rLast

\* C40 witness: four failed attempts with max_retries = 3 and the delay capped
\* at 5 seconds: both loops slept 2, 4 and 5 seconds and hold the last error.
C40_Witness ==
  /\ ctx.pc = "exhausted"
  /\ rPc = "raised"
  /\ rCfg.max_retries = 3
  /\ rCfg.params = <<2, 5, 2>>
  /\ ctx.calls = 4
  /\ [k \in 1..3 |-> ctx.sleeps[k].base] = <<2, 4, 5>>
  /\ get_last_error(ctx) = "conn_reset"
  /\ rLast = "conn_reset"

====
